---- MODULE Spec2Model ----
(***************************************************************************)
(* A model of libreeye / surveillance: the per-camera recording pipeline   *)
(* (CameraRecorder, its two reader threads and its sinks), the FileSink,   *)
(* the retention sweep and the multipart uploader sink.                    *)
(*                                                                         *)
(* Time is counted in ticks of the pipeline's main loop (one sleep(1)).    *)
(* `now` is the local wall clock, time.time() + _gm_offset.                *)
(***************************************************************************)
EXTENDS Integers, Sequences, FiniteSets, TLC

\* ------------------------------------------------------------------ bounds
MaxAttempts == 3
MaxDelay == 2
MaxSpawn == 3
MaxBlocks == 2
MaxLines == 2
MaxTime == 4
MaxLatency == 1
TicksPerMinute == 2
MaxSegmentMinutes == 1
MaxSegments == 3
MaxItems == 3
MaxStamp == 3
MaxDays == 1
TicksPerDay == 2
PageSize == 2
MaxUploads == 2
MaxWrites == 4
PartMinUnits == 5
BlockUnits == 2
MaxPartSize == 6
MaxS3Errors == 1
TimeoutTicks == 1
MaxReopens == 1
NCameras == 2
WatchdogDelay == 1

GcFrequency == 2
MaxRequests == 2
MaxDeaths == 2
YtSegmentLength == 1
MaxYtFaults == 1
MaxFrames == 4
MaxYtThreads == 3
MaxYtTicks == 2
MaxBelowZero == 1
MaxMsgBytes == 4
MaxCamBlocks == 3

\* ---------------------------------------------------------------- helpers
NoProc == 0
NoName == 0
Sinks == {1, 2}
Pids == 1..MaxSpawn

Range(s) == {s[i] : i \in 1..Len(s)}

Put(f, k, v) == [x \in (DOMAIN f) \cup {k} |-> IF x = k THEN v ELSE f[x]]

EmptyDisk == [x \in {} |-> <<>>]

RECURSIVE SelectPairs(_, _)
SelectPairs(log, s) ==
    IF log = <<>> THEN <<>>
    ELSE IF Head(log)[1] = s THEN <<Head(log)[2]>> \o SelectPairs(Tail(log), s)
    ELSE SelectPairs(Tail(log), s)

RECURSIVE ConcatFiles(_, _)
ConcatFiles(names, dk) ==
    IF names = <<>> THEN <<>>
    ELSE (IF Head(names) \in DOMAIN dk THEN dk[Head(names)] ELSE <<>>)
         \o ConcatFiles(Tail(names), dk)

NoDuplicates(s) == \A i, j \in 1..Len(s) : i # j => s[i] # s[j]

\* -------------------------------------------------------------- variables
VARIABLES
    \* CameraRecorder (surveillance/recorder.py)
    pc, interrupt, attempts, error_wait_time, last_time, now, conf, sinks,
    ffmpeg_stream, stdout_reader_thread, stderr_reader_thread, error_queue,
    proc, rdOut, rdErr, exitcode,
    \* FileSink (libreeye/sinks/file.py) and the directory it writes to
    sink, disk,
    \* history of the run, read by the properties only: `opens` holds the times
    \* of the calls of open on each sink, `created` the files each sink made,
    \* `wlog` the writes that succeeded, `sleeps` the backoff sleeps since the
    \* counters were last reset, `faults` the number of failures and signals the
    \* environment has injected, `budget` those it may still inject
    spawned, nread, nlines, src, wlog, created, opens, sleeps, faults, budget,
    lastRaise, leftBy,
    \* the retention sweep (gc.py, storage/local.py, storage/youtube.py)
    gc,
    \* AWSBucketSink, its uploader threads and the calls made to S3
    \* (surveillance/sinks/aws_bucket.py)
    aws,
    \* the daemon, its request handler thread and the containers of the
    \* cameras (libreeye/daemon/daemon.py)
    dm,
    \* one call of _open_ffmpeg_stream with the transcoder's stderr pipe and
    \* the thread that reads it (surveillance/recorder.py)
    su,
    \* YoutubeWriter, its background threads and the uploader processes they
    \* start (libreeye/storage/youtube.py)
    yt,
    \* one call of read_msg on a connected socket and the peer of that socket
    \* (libreeye/daemon/socket_actions.py)
    rm,
    \* the queue-based Camera, the stdout handler thread of its transcoder and
    \* the thread that calls read, stop and reset (surveillance/camera.py)
    cam

\* What no step of the pipeline changes: its configuration, and the state of
\* the programs that run apart from it.
static == <<conf, sinks, gc, aws, dm, su, yt, rm, cam>>

recVars == <<pc, interrupt, attempts, error_wait_time, last_time, static,
             ffmpeg_stream, stdout_reader_thread, stderr_reader_thread,
             error_queue, proc, rdOut, rdErr, exitcode,
             spawned, nread, nlines, src, lastRaise, leftBy, opens, sleeps, faults,
             budget>>
sinkVars == <<sink, disk, created, wlog, now>>
vars == <<recVars, sinkVars>>

\* ------------------------------------------------------------------ FileSink
\* The name FileSink.open gives the segment file: the local time to the minute.
Stamp(t) == (t \div TicksPerMinute) + 1

FileSink_is_opened(ss) == ss.file

\* An open that does not test whether the sink is open already.
FileSink_openAgain(ss, dk, t, fail) ==
    IF fail THEN <<[ss EXCEPT !.filename = Stamp(t)], dk>>
    ELSE <<[file |-> TRUE, filename |-> Stamp(t), byte_count |-> 0],
           Put(dk, Stamp(t), <<>>)>>

\* FileSink.open at local time t; `fail`: the builtin open() raises OSError.
FileSink_open(ss, dk, t, fail) ==
    IF ss.file THEN <<ss, dk>>
    ELSE IF fail THEN <<[ss EXCEPT !.filename = Stamp(t)], dk>>
    ELSE <<[file |-> TRUE, filename |-> Stamp(t), byte_count |-> 0],
           Put(dk, Stamp(t), <<>>)>>

\* FileSink.write of one block; `fail`: file.write raises OSError.
FileSink_write(ss, dk, blk, fail) ==
    IF fail THEN <<[ss EXCEPT !.byte_count = @ + 1], dk>>
    ELSE <<[ss EXCEPT !.byte_count = @ + 1],
           [dk EXCEPT ![ss.filename] = Append(@, blk)]>>

\* FileSink.close; `fail`: file.close raises OSError and _file stays set.
FileSink_close(ss, fail) ==
    IF fail THEN ss
    ELSE [ss EXCEPT !.file = FALSE, !.filename = NoName]


\* ------------------------------------------------------- CameraRecorder
\* _ErrReaderThread._parse_error_msg: the class of error a stderr line gives.
Lines == {"tcp", "cseq", "codec", "other"}

parse_error_msg(line) ==
    CASE line = "tcp" -> "EHOSTUNREACH"
      [] line = "cseq" -> "ECONNRESET"
      [] line = "codec" -> "ECONNABORTED"
      [] OTHER -> "RuntimeWarning"

\* A test that takes no item for a warning.
NoWarning(e) == FALSE

\* isinstance(error, Warning), lines 138 and 228.
IsWarning(e) == e = "RuntimeWarning"

\* A drain of the queue that skips every item, errors included.
FirstErrorNone(q) == 0

\* Position of the first item of the queue that is not a warning, 0 if none:
\* the loops "while not queue.empty(): get(); if Warning: continue; raise".
FirstError(q) ==
    IF \E i \in 1..Len(q) : ~IsWarning(q[i])
    THEN CHOOSE i \in 1..Len(q) :
             /\ ~IsWarning(q[i])
             /\ \A j \in 1..(i - 1) : IsWarning(q[j])
    ELSE 0

length == conf.segment_length * TicksPerMinute

FaultKinds == {"open", "write", "close", "die", "timeout", "stderr", "warning", "stop"}

\* A scenario: how many failures of each kind the environment injects at most.
Budget(f) == [k \in FaultKinds |-> IF k \in DOMAIN f THEN f[k] ELSE 0]

Scenarios ==
    { Budget([open |-> MaxAttempts]),
      Budget([open |-> 1, stop |-> 1]),
      Budget([write |-> 1, close |-> 1]),
      Budget([timeout |-> 1]),
      Budget([stderr |-> 1, warning |-> 1]),
      Budget([die |-> 1, stop |-> 1]),
      Budget([stop |-> 1, warning |-> 1]) }

IdleReader == [pc |-> "none", i |-> 0, blk |-> 0]
NoRaise == [p |-> 0, i |-> 0, s |-> 0, k |-> 0, open |-> {}, before |-> {}]
NotLeft == [why |-> "none", open |-> {}]

OpenSet == {s \in Range(sinks) : sink[s].file}

\* The environment may inject a failure (or signal, or warning line) of kind k
\* now: the run's scenario still has one of that kind left.
MayFail(k) == budget[k] > 0

\* The state CameraRecorder.__init__ and the sinks' constructors leave, the
\* configuration and the clock apart.
InitRest ==
    /\ pc = "top"
    /\ interrupt = FALSE
    /\ attempts = conf.reconnect_attempts
    /\ error_wait_time = conf.reconnect_base_delay
    /\ last_time = 0
    /\ ffmpeg_stream = NoProc
    /\ stdout_reader_thread = NoProc
    /\ stderr_reader_thread = NoProc
    /\ error_queue = <<>>
    /\ proc = [p \in Pids |-> "unborn"]
    /\ rdOut = [p \in Pids |-> IdleReader]
    /\ rdErr = [p \in Pids |-> "none"]
    /\ exitcode = "running"
    /\ sink = [s \in Sinks |-> [file |-> FALSE, filename |-> NoName, byte_count |-> 0]]
    /\ disk = [s \in Sinks |-> EmptyDisk]
    /\ spawned = 0
    /\ nread = 0
    /\ nlines = 0
    /\ src = [b \in 1..MaxBlocks |-> NoProc]
    /\ wlog = <<>>
    /\ created = [s \in Sinks |-> <<>>]
    /\ opens = [s \in Sinks |-> <<>>]
    /\ sleeps = <<>>
    /\ faults = 0
    /\ lastRaise = NoRaise
    /\ leftBy = NotLeft

\* The retention sweep when it is not the program under study.
GcIdle == [backend |-> "none", mtime |-> <<>>, today |-> 0, days |-> 0,
           pc |-> "done", due_date |-> 0, i |-> 0, page_token |-> 0,
           more_pages |-> FALSE, response |-> <<>>, expired |-> {}, removed |-> {}]

\* The uploader sink when it is not the program under study.
AwsIdle == [pc |-> "closed", ffmpeg_subprocess |-> NoProc, thread |-> NoProc,
            thread_exception |-> "none", last_write |-> 0,
            stdin_closed |-> <<>>, pipe |-> <<>>, thr |-> <<>>, s3 |-> <<>>,
            nwrites |-> 0, first |-> 0, errors |-> 0, part_size |-> 1,
            out |-> <<>>, raised |-> [by |-> "none", err |-> "none"],
            wait_since |-> 0, reopens |-> 0]

\* The daemon when it is not the program under study: as constructed, the
\* cameras inactive, the first watchdog run scheduled (lines 112-128). `main`
\* is the position of the main thread, `h` the request the handler thread is
\* serving; `last`, `stopped`, `died` are history, read by the properties only:
\* the last of start_camera / stop_camera called on a camera, whether it was
\* stopped and not started by a request or by run() since, and the time its
\* container ended by itself, the camera active and the daemon running, while
\* nothing has started or stopped it since. `daemon_active` is
\* Daemon._active, the flag of the scheduler loop; `gc` is the thread whose call
\* started the retention container that is running, "none" when none runs;
\* `h.frames` counts the reply frames written to the socket of the request.
\* `instance` is Daemon._instance, the number of the object it refers to (0:
\* None), `initialized` that object's _initialized; `created` counts the
\* objects made by __new__, `inits` the runs of the body of __init__, and
\* `h.obj` is the object Daemon() returned to the handler.
Cameras == 0..(NCameras - 1)

Never == -1

\* sched.scheduler(time.time, time.sleep), line 125: an empty queue, kept as
\* the number of pending events of each task.
NoEvents == [task \in {"watchdog", "gc"} |-> 0]

NoRequest == [op |-> "none", id |-> 0, step |-> "idle", err |-> "none",
              reply |-> [c \in Cameras |-> "none"], frames |-> 0, obj |-> 0]

DaemonIdle == [watchdog |-> TRUE,
               instance |-> 1,
               created |-> 1,
               initialized |-> TRUE,
               inits |-> 1,
               daemon_active |-> TRUE,
               active |-> [c \in Cameras |-> FALSE],
               running |-> [c \in Cameras |-> FALSE],
               main |-> [pc |-> "run", i |-> 0, step |-> "flag", err |-> "none"],
               h |-> NoRequest,
               wd_next |-> WatchdogDelay,
               gc |-> "none",
               gc_next |-> GcFrequency,
               queue |-> [task \in {"watchdog", "gc"} |-> 1],
               nreq |-> 0,
               deaths |-> 0,
               last |-> [c \in Cameras |-> "none"],
               stopped |-> [c \in Cameras |-> FALSE],
               died |-> [c \in Cameras |-> Never]]

\* The call of _open_ffmpeg_stream when it is not the program under study.
\* `pc` is the position of the calling thread, `proc` the state of the
\* transcoder, `pipe` the lines it has written to stderr that the reader
\* thread has not read, `queue` the error queue, `rd` the reader thread;
\* `byte`, `fatal`, `killed` are history: the transcoder has written an output
\* byte, it has written a line that classifies as an error, terminate() was
\* called on it.
StartupIdle == [pc |-> "none", proc |-> "unborn", pipe |-> <<>>, queue |-> <<>>,
                rd |-> "none", nl |-> 0, err |-> "none",
                byte |-> FALSE, fatal |-> FALSE, killed |-> FALSE]

\* The YoutubeWriter when it is not the program under study. `stdin`, `ffmpeg`
\* and `thread` are the fields _ffmpeg_stdin, _ffmpeg and _thread, 0 for None,
\* otherwise the number of a process of `procs` or of a thread of `threads`;
\* `t` is the clock; `delivered` holds the frames written to a stream, each
\* with the process that took it; `nw` counts the calls of write, `dropped`
\* those that returned without writing, `errors` the items put on the error
\* queue, `faults` the failures the environment may still inject.
YtIdle == [pc |-> "none", stdin |-> 0, ffmpeg |-> 0, thread |-> 0,
           segment_start |-> 0, t |-> 0, threads |-> <<>>, procs |-> <<>>,
           nw |-> 0, delivered |-> <<>>, dropped |-> 0, errors |-> 0,
           faults |-> 0]

\* The call of read_msg when it is not the program under study. `answer` is
\* the local of that name, `wire` the bytes the peer has sent that recv has
\* not returned, `peer` whether the peer's end of the socket is open,
\* `result` the value returned; `sent` counts the bytes sent, `eofs` is 1
\* once recv has returned b''.
ReadIdle == [pc |-> "none", answer |-> <<>>, wire |-> <<>>, peer |-> "none",
             result |-> <<>>, sent |-> 0, eofs |-> 0]

\* The queue-based Camera when it is not the program under study. `pc` is the
\* position of the thread that owns the camera, `op` the teardown it called,
\* `h` the position of the stdout handler thread and `blk` the block it holds,
\* `pipe` the blocks the transcoder has written that the handler has not
\* read, `video_queue` the queue; `put` holds every block the handler has put
\* on the queue and `got` every block read() has returned followed by those
\* stop() or reset() returned; `timeouts` is 1 once a join has timed out.
CameraIdle == [pc |-> "none", op |-> "none", started |-> FALSE, ffmpeg |-> "none",
               h |-> "none", blk |-> 0, pipe |-> <<>>, video_queue |-> <<>>,
               put |-> <<>>, got |-> <<>>, produced |-> 0, timeouts |-> 0]

\* The retry settings are read only by the backoff step, which only a failure
\* to open the sinks or an error line of the transcoder leads to: the scenarios
\* without either run under one setting.
CanBackOff(b) == b["open"] > 0 \/ b["stderr"] > 0

InitRec ==
    /\ gc = GcIdle
    /\ aws = AwsIdle
    /\ dm = DaemonIdle
    /\ su = StartupIdle
    /\ yt = YtIdle
    /\ rm = ReadIdle
    /\ cam = CameraIdle
    /\ budget \in Scenarios
    /\ conf \in [reconnect_attempts : IF CanBackOff(budget) THEN 1..MaxAttempts
                                      ELSE {MaxAttempts},
                 reconnect_base_delay : IF CanBackOff(budget) THEN 1..MaxDelay
                                        ELSE {1},
                 segment_length : 1..MaxSegmentMinutes]
    /\ sinks \in {<<1>>, <<1, 2>>}
    /\ now \in 0..(length - 1)
    /\ InitRest


\* A backoff step that sleeps after every failed attempt, the last included,
\* and gives up on the attempt after.
BackoffSleepFirst(err) ==
    IF attempts = 0
    THEN /\ pc' = "failed"
         /\ exitcode' = err
         /\ UNCHANGED <<attempts, error_wait_time, now, sleeps>>
    ELSE /\ now + error_wait_time <= MaxTime
         /\ pc' = "top"
         /\ attempts' = attempts - 1
         /\ now' = now + error_wait_time
         /\ sleeps' = Append(sleeps, error_wait_time)
         /\ error_wait_time' = error_wait_time * 2
         /\ UNCHANGED exitcode

\* The step "attempts -= 1; if attempts == 0: raise; sleep; wait *= 2; continue"
\* of run(), after error `err`; main() turns the raised error into the exit code.
Backoff(err) ==
    IF attempts - 1 = 0
    THEN /\ pc' = "failed"
         /\ exitcode' = err
         /\ attempts' = attempts - 1
         /\ UNCHANGED <<error_wait_time, now, sleeps>>
    ELSE /\ now + error_wait_time <= MaxTime
         /\ pc' = "top"
         /\ attempts' = attempts - 1
         /\ now' = now + error_wait_time
         /\ sleeps' = Append(sleeps, error_wait_time)
         /\ error_wait_time' = error_wait_time * 2
         /\ UNCHANGED exitcode

\* run(), lines 184-199: open every sink; with none open, back off or give up.
OpenSinks(F) ==
    /\ pc = "top"
    /\ ~interrupt
    /\ F \subseteq {s \in Range(sinks) : ~sink[s].file}
    /\ F # {} => MayFail("open")
    /\ LET res(s) == FileSink_open(sink[s], disk[s], now, s \in F)
           opened == {s \in Range(sinks) : ~sink[s].file /\ s \notin F}
       IN  /\ sink' = [s \in Sinks |-> IF s \in Range(sinks) THEN res(s)[1] ELSE sink[s]]
           /\ disk' = [s \in Sinks |-> IF s \in Range(sinks) THEN res(s)[2] ELSE disk[s]]
           /\ created' = [s \in Sinks |-> IF s \in opened
                                          THEN Append(created[s], Stamp(now))
                                          ELSE created[s]]
           /\ opens' = [s \in Sinks |-> IF s \in Range(sinks) THEN Append(opens[s], now)
                                        ELSE opens[s]]
    /\ faults' = IF F = {} THEN faults ELSE faults + 1
    /\ budget' = IF F # {} THEN [budget EXCEPT !["open"] = @ - 1] ELSE budget
    /\ IF \A s \in Range(sinks) : ~sink'[s].file
       THEN Backoff("EIO")
       ELSE /\ pc' = "spawn"
            /\ UNCHANGED <<attempts, error_wait_time, now, sleeps, exitcode>>
    /\ UNCHANGED <<interrupt, last_time, static, ffmpeg_stream, stdout_reader_thread,
                   stderr_reader_thread, error_queue, proc, rdOut, rdErr,
                   spawned, nread, nlines, src, wlog, lastRaise, leftBy>>

\* run() leaves "while not self._interrupt" and returns; main() exits with 0.
RunReturn ==
    /\ pc = "top"
    /\ interrupt
    /\ pc' = "done"
    /\ exitcode' = "0"
    /\ UNCHANGED <<interrupt, attempts, error_wait_time, last_time, static,
                   ffmpeg_stream, stdout_reader_thread, stderr_reader_thread,
                   error_queue, proc, rdOut, rdErr, spawned, nread, nlines, src,
                   lastRaise, leftBy, opens, sleeps, faults, budget, sinkVars>>

\* _open_ffmpeg_stream, lines 108-132: spawn the transcoder, make a new error
\* queue and start the stderr reader.
OpenFfmpegSpawn ==
    /\ pc = "spawn"
    /\ IF ffmpeg_stream # NoProc
       THEN /\ pc' = "main_loop"
            /\ attempts' = conf.reconnect_attempts
            /\ error_wait_time' = conf.reconnect_base_delay
            /\ last_time' = 0
            /\ sleeps' = <<>>
            /\ UNCHANGED <<ffmpeg_stream, error_queue, stderr_reader_thread, proc,
                           rdErr, spawned>>
       ELSE /\ spawned < MaxSpawn
            /\ spawned' = spawned + 1
            /\ ffmpeg_stream' = spawned + 1
            /\ proc' = [proc EXCEPT ![spawned + 1] = "starting"]
            /\ error_queue' = <<>>
            /\ stderr_reader_thread' = spawned + 1
            /\ rdErr' = [rdErr EXCEPT ![spawned + 1] = "run"]
            /\ pc' = "peek"
            /\ UNCHANGED <<attempts, error_wait_time, last_time, sleeps>>
    /\ UNCHANGED <<interrupt, static, stdout_reader_thread, rdOut, exitcode,
                   nread, nlines, src, lastRaise, leftBy, opens, faults, budget, sinkVars>>

\* _open_ffmpeg_stream, lines 133-152, and run(), lines 203-217: peek returns on
\* the first byte or on end of file; a queued error kills the transcoder and
\* unwinds to the backoff step; otherwise the stdout reader starts and the
\* counters are reset. `lat` is the time the start-up took.
OpenFfmpegPeek(lat) ==
    /\ pc = "peek"
    /\ proc[ffmpeg_stream] \in {"running", "exited"}
    /\ LET e == FirstError(error_queue)
       IN  IF e # 0
           THEN /\ lat = 0
                /\ proc' = [proc EXCEPT ![ffmpeg_stream] = "exited"]
                /\ ffmpeg_stream' = NoProc
                /\ stderr_reader_thread' = NoProc
                /\ error_queue' = SubSeq(error_queue, e + 1, Len(error_queue))
                /\ Backoff(error_queue[e])
                /\ UNCHANGED <<stdout_reader_thread, rdOut, last_time>>
           ELSE /\ now + lat <= MaxTime
                /\ now' = now + lat
                /\ error_queue' = <<>>
                /\ stdout_reader_thread' = ffmpeg_stream
                /\ rdOut' = [rdOut EXCEPT ![ffmpeg_stream] = [pc |-> "read", i |-> 0, blk |-> 0]]
                /\ attempts' = conf.reconnect_attempts
                /\ error_wait_time' = conf.reconnect_base_delay
                /\ sleeps' = <<>>
                /\ last_time' = 0
                /\ pc' = "main_loop"
                /\ UNCHANGED <<ffmpeg_stream, stderr_reader_thread, proc, exitcode>>
    /\ UNCHANGED <<interrupt, static, rdErr, spawned, nread, nlines, src,
                   lastRaise, leftBy, opens, faults, budget, sink, disk, created, wlog>>

\* One pass of the main loop, lines 222-244: sample the modular clock, drain
\* the error queue, leave on a wrap of the clock, else sleep one tick.
MainLoop ==
    /\ pc = "main_loop"
    /\ LET t == now % length
           e == FirstError(error_queue)
       IN  IF interrupt
           THEN /\ pc' = "close_ffmpeg"
                /\ leftBy' = [why |-> "interrupt", open |-> OpenSet]
                /\ UNCHANGED <<error_queue, last_time, now>>
           ELSE IF e # 0
           THEN /\ pc' = "close_ffmpeg"
                /\ leftBy' = [why |-> error_queue[e], open |-> OpenSet]
                /\ error_queue' = SubSeq(error_queue, e + 1, Len(error_queue))
                /\ UNCHANGED <<last_time, now>>
           ELSE IF t < last_time
           THEN /\ pc' = "close_ffmpeg"
                /\ leftBy' = [why |-> "rollover", open |-> OpenSet]
                /\ error_queue' = <<>>
                /\ UNCHANGED <<last_time, now>>
           ELSE /\ now + 1 <= MaxTime
                /\ last_time' = t
                /\ now' = now + 1
                /\ error_queue' = <<>>
                /\ UNCHANGED <<pc, leftBy>>
    /\ UNCHANGED <<interrupt, attempts, error_wait_time, static, ffmpeg_stream,
                   stdout_reader_thread, stderr_reader_thread, proc, rdOut, rdErr,
                   exitcode, spawned, nread, nlines, src, lastRaise, opens, sleeps,
                   faults, budget, sink, disk, created, wlog>>

\* _close_ffmpeg_stream, lines 154-160: write 'q' to the transcoder's stdin and
\* drop the reference. Flushing into the pipe of a transcoder that has exited
\* raises BrokenPipeError, which run() does not catch.
CloseFfmpeg ==
    /\ pc = "close_ffmpeg"
    /\ IF ffmpeg_stream = NoProc
       THEN /\ pc' = "join"
            /\ UNCHANGED <<ffmpeg_stream, proc, exitcode>>
       ELSE IF proc[ffmpeg_stream] = "exited"
       THEN /\ pc' = "failed"
            /\ exitcode' = "EPIPE"
            /\ UNCHANGED <<ffmpeg_stream, proc>>
       ELSE /\ pc' = "join"
            /\ proc' = [proc EXCEPT ![ffmpeg_stream] = "quitting"]
            /\ ffmpeg_stream' = NoProc
            /\ UNCHANGED exitcode
    /\ UNCHANGED <<interrupt, attempts, error_wait_time, last_time, static,
                   stdout_reader_thread, stderr_reader_thread, error_queue, rdOut,
                   rdErr, spawned, nread, nlines, src, lastRaise, leftBy, opens,
                   sleeps, faults, budget, sinkVars>>

\* _join_reader_threads, lines 162-173, both threads ended within the timeout.
JoinOk ==
    /\ pc = "join"
    /\ rdOut[stdout_reader_thread].pc = "done"
    /\ rdErr[stderr_reader_thread] = "done"
    /\ stdout_reader_thread' = NoProc
    /\ stderr_reader_thread' = NoProc
    /\ pc' = "close_sinks"
    /\ UNCHANGED <<interrupt, attempts, error_wait_time, last_time, static,
                   ffmpeg_stream, error_queue, proc, rdOut, rdErr, exitcode,
                   spawned, nread, nlines, src, lastRaise, leftBy, opens, sleeps,
                   faults, budget, sinkVars>>

\* _join_reader_threads: a thread is still alive after the timeout; the
\* TimeoutError is caught and logged by run(), lines 249-252.
JoinTimeout ==
    /\ pc = "join"
    /\ \/ /\ rdOut[stdout_reader_thread].pc # "done"
          /\ UNCHANGED stdout_reader_thread
       \/ /\ rdOut[stdout_reader_thread].pc = "done"
          /\ rdErr[stderr_reader_thread] # "done"
          /\ stdout_reader_thread' = NoProc
    /\ MayFail("timeout")
    /\ faults' = faults + 1
    /\ budget' = [budget EXCEPT !["timeout"] = @ - 1]
    /\ pc' = "close_sinks"
    /\ UNCHANGED <<interrupt, attempts, error_wait_time, last_time, static,
                   ffmpeg_stream, stderr_reader_thread, error_queue, proc, rdOut,
                   rdErr, exitcode, spawned, nread, nlines, src, lastRaise, leftBy,
                   opens, sleeps, sinkVars>>

\* run(), lines 254-260: close every open sink, logging a close that raises.
CloseSinks(F) ==
    /\ pc = "close_sinks"
    /\ F \subseteq OpenSet
    /\ F # {} => MayFail("close")
    /\ sink' = [s \in Sinks |-> IF s \in OpenSet THEN FileSink_close(sink[s], s \in F)
                                ELSE sink[s]]
    /\ faults' = IF F = {} THEN faults ELSE faults + 1
    /\ budget' = IF F # {} THEN [budget EXCEPT !["close"] = @ - 1] ELSE budget
    /\ pc' = "top"
    /\ UNCHANGED <<interrupt, attempts, error_wait_time, last_time, static,
                   ffmpeg_stream, stdout_reader_thread, stderr_reader_thread,
                   error_queue, proc, rdOut, rdErr, exitcode, spawned, nread, nlines,
                   src, lastRaise, leftBy, opens, sleeps, disk, created, wlog, now>>

\* CameraRecorder.stop, called by the SIGTERM handler of main().
Stop ==
    /\ pc \notin {"done", "failed"}
    /\ ~interrupt
    /\ MayFail("stop")
    /\ interrupt' = TRUE
    /\ faults' = faults + 1
    /\ budget' = [budget EXCEPT !["stop"] = @ - 1]
    /\ UNCHANGED <<pc, attempts, error_wait_time, last_time, static,
                   ffmpeg_stream, stdout_reader_thread, stderr_reader_thread,
                   error_queue, proc, rdOut, rdErr, exitcode, spawned, nread, nlines,
                   src, lastRaise, leftBy, opens, sleeps, sinkVars>>


\* ------------------------------------------- the transcoder and the readers
\* The transcoder writes its first output byte.
ProcFirstByte(p) ==
    /\ proc[p] = "starting"
    /\ proc' = [proc EXCEPT ![p] = "running"]
    /\ UNCHANGED <<pc, interrupt, attempts, error_wait_time, last_time, static,
                   ffmpeg_stream, stdout_reader_thread, stderr_reader_thread,
                   error_queue, rdOut, rdErr, exitcode, spawned, nread, nlines, src,
                   lastRaise, leftBy, opens, sleeps, faults, budget, sinkVars>>

\* The transcoder exits: after 'q', or on its own (a failure of the run).
ProcExit(p) ==
    /\ proc[p] \in {"starting", "running", "quitting"}
    /\ proc' = [proc EXCEPT ![p] = "exited"]
    /\ proc[p] # "quitting" => MayFail("die")
    /\ faults' = IF proc[p] = "quitting" THEN faults ELSE faults + 1
    /\ budget' = IF proc[p] # "quitting" THEN [budget EXCEPT !["die"] = @ - 1] ELSE budget
    /\ UNCHANGED <<pc, interrupt, attempts, error_wait_time, last_time, static,
                   ffmpeg_stream, stdout_reader_thread, stderr_reader_thread,
                   error_queue, rdOut, rdErr, exitcode, spawned, nread, nlines, src,
                   lastRaise, leftBy, opens, sleeps, sinkVars>>

\* _ErrReaderThread.run, lines 67-81: a full line of the transcoder's stderr is
\* classified and put on the queue the thread was given. The queue of an
\* earlier transcoder is no longer read by anyone.
ErrReaderLine(p, line) ==
    /\ rdErr[p] = "run"
    /\ proc[p] \in {"starting", "running", "quitting"}
    /\ nlines < MaxLines
    /\ nlines' = nlines + 1
    /\ IsWarning(parse_error_msg(line)) => MayFail("warning")
    /\ error_queue' = IF p = spawned THEN Append(error_queue, parse_error_msg(line))
                      ELSE error_queue
    /\ ~IsWarning(parse_error_msg(line)) => MayFail("stderr")
    /\ faults' = IF IsWarning(parse_error_msg(line)) THEN faults ELSE faults + 1
    /\ budget' = [budget EXCEPT ![IF IsWarning(parse_error_msg(line)) THEN "warning"
                                   ELSE "stderr"] = @ - 1]
    /\ UNCHANGED <<pc, interrupt, attempts, error_wait_time, last_time, static,
                   ffmpeg_stream, stdout_reader_thread, stderr_reader_thread,
                   proc, rdOut, rdErr, exitcode, spawned, nread, src,
                   lastRaise, leftBy, opens, sleeps, sinkVars>>

\* _ErrReaderThread.run: read(1) returns nothing, the thread ends.
ErrReaderEof(p) ==
    /\ rdErr[p] = "run"
    /\ proc[p] = "exited"
    /\ rdErr' = [rdErr EXCEPT ![p] = "done"]
    /\ UNCHANGED <<pc, interrupt, attempts, error_wait_time, last_time, static,
                   ffmpeg_stream, stdout_reader_thread, stderr_reader_thread,
                   error_queue, proc, rdOut, exitcode, spawned, nread, nlines, src,
                   lastRaise, leftBy, opens, sleeps, faults, budget, sinkVars>>

\* _OutReaderThread.run, lines 29-31: read the next block, or end at end of file.
ReaderRead(p) ==
    /\ rdOut[p].pc = "read"
    /\ \/ /\ proc[p] \in {"running", "quitting"}
          /\ nread < MaxBlocks
          /\ nread' = nread + 1
          /\ src' = [src EXCEPT ![nread + 1] = p]
          /\ rdOut' = [rdOut EXCEPT ![p] = [pc |-> "check", i |-> 1, blk |-> nread + 1]]
       \/ /\ proc[p] = "exited"
          /\ rdOut' = [rdOut EXCEPT ![p] = [@ EXCEPT !.pc = "done"]]
          /\ UNCHANGED <<nread, src>>
    /\ UNCHANGED <<pc, interrupt, attempts, error_wait_time, last_time, static,
                   ffmpeg_stream, stdout_reader_thread, stderr_reader_thread,
                   error_queue, proc, rdErr, exitcode, spawned, nlines,
                   lastRaise, leftBy, opens, sleeps, faults, budget, sinkVars>>

\* _OutReaderThread.run, lines 32-33: the next sink of the list and its
\* is_opened test.
ReaderCheck(p) ==
    /\ rdOut[p].pc = "check"
    /\ rdOut' = [rdOut EXCEPT ![p] =
                   IF @.i > Len(sinks) THEN [@ EXCEPT !.pc = "read"]
                   ELSE IF FileSink_is_opened(sink[sinks[@.i]]) THEN [@ EXCEPT !.pc = "write"]
                   ELSE [@ EXCEPT !.i = @ + 1]]
    /\ UNCHANGED <<pc, interrupt, attempts, error_wait_time, last_time, static,
                   ffmpeg_stream, stdout_reader_thread, stderr_reader_thread,
                   error_queue, proc, rdErr, exitcode, spawned, nread, nlines, src,
                   lastRaise, leftBy, opens, sleeps, faults, budget, sinkVars>>

\* A reader that catches the error inside the loop and goes on to the next sink.
AfterWriteErrorContinue(r) == [r EXCEPT !.pc = "check", !.i = @ + 1]

\* What the reader does after sink.write raised OSError at position i of the
\* list: the exception leaves both loops, the error is queued, the thread ends.
AfterWriteError(r) == [r EXCEPT !.pc = "done"]

\* _OutReaderThread.run, lines 34-36: sink.write(block). `fail`: the write
\* raises OSError. A sink closed since the is_opened test raises AttributeError,
\* which the thread does not catch.
ReaderWrite(p, fail) ==
    /\ rdOut[p].pc = "write"
    /\ LET s == sinks[rdOut[p].i]
           b == rdOut[p].blk
           res == FileSink_write(sink[s], disk[s], b, fail)
       IN  IF ~sink[s].file
           THEN /\ ~fail
                /\ rdOut' = [rdOut EXCEPT ![p] = [@ EXCEPT !.pc = "done"]]
                /\ sink' = [sink EXCEPT ![s] = [@ EXCEPT !.byte_count = @ + 1]]
                /\ UNCHANGED <<disk, wlog, error_queue, lastRaise>>
           ELSE /\ sink' = [sink EXCEPT ![s] = res[1]]
                /\ disk' = [disk EXCEPT ![s] = res[2]]
                /\ IF fail
                   THEN /\ rdOut' = [rdOut EXCEPT ![p] = AfterWriteError(@)]
                        /\ error_queue' = IF p = spawned THEN Append(error_queue, "ENOSPC")
                                          ELSE error_queue
                        /\ lastRaise' = [p |-> p, i |-> rdOut[p].i, s |-> s, k |-> b,
                                         open |-> OpenSet,
                                         before |-> {sinks[j] : j \in 1..(rdOut[p].i - 1)}
                                                    \cap OpenSet]
                        /\ UNCHANGED wlog
                   ELSE /\ rdOut' = [rdOut EXCEPT ![p] = [@ EXCEPT !.i = @ + 1, !.pc = "check"]]
                        /\ wlog' = Append(wlog, <<s, b>>)
                        /\ UNCHANGED <<error_queue, lastRaise>>
    /\ fail => MayFail("write")
    /\ faults' = IF fail THEN faults + 1 ELSE faults
    /\ budget' = IF fail THEN [budget EXCEPT !["write"] = @ - 1] ELSE budget
    /\ UNCHANGED <<pc, interrupt, attempts, error_wait_time, last_time, static,
                   ffmpeg_stream, stdout_reader_thread, stderr_reader_thread,
                   proc, rdErr, exitcode, spawned, nread, nlines, src,
                   leftBy, opens, sleeps, created, now>>

\* ------------------------------------------------------- the specification
NextRec ==
    \/ \E F \in SUBSET Sinks : OpenSinks(F)
    \/ RunReturn
    \/ OpenFfmpegSpawn
    \/ \E lat \in 0..MaxLatency : OpenFfmpegPeek(lat)
    \/ MainLoop
    \/ CloseFfmpeg
    \/ JoinOk
    \/ JoinTimeout
    \/ \E F \in SUBSET Sinks : CloseSinks(F)
    \/ Stop
    \/ \E p \in Pids : ProcFirstByte(p)
    \/ \E p \in Pids : ProcExit(p)
    \/ \E p \in Pids, line \in Lines : ErrReaderLine(p, line)
    \/ \E p \in Pids : ErrReaderEof(p)
    \/ \E p \in Pids : ReaderRead(p)
    \/ \E p \in Pids : ReaderCheck(p)
    \/ \E p \in Pids, fail \in BOOLEAN : ReaderWrite(p, fail)

Spec == InitRec /\ [][NextRec]_vars

\* The steps of the thread that executes run(), of the two reader threads,
\* and of a transcoder that is starting or was told to quit. Each thread keeps
\* running while it has a step to make; the transcoder, given a connection
\* timeout (stimeout, line 114), ends its start-up by a first byte or by
\* exiting, and one told to quit exits.
RunStep ==
    \/ \E F \in SUBSET Sinks : OpenSinks(F)
    \/ RunReturn
    \/ OpenFfmpegSpawn
    \/ \E lat \in 0..MaxLatency : OpenFfmpegPeek(lat)
    \/ MainLoop
    \/ CloseFfmpeg
    \/ JoinOk
    \/ JoinTimeout
    \/ \E F \in SUBSET Sinks : CloseSinks(F)

ThreadStep ==
    \/ \E p \in Pids : ErrReaderEof(p)
    \/ \E p \in Pids : ReaderRead(p)
    \/ \E p \in Pids : ReaderCheck(p)
    \/ \E p \in Pids, fail \in BOOLEAN : ReaderWrite(p, fail)

ProcStep ==
    \E p \in Pids : /\ proc[p] \in {"starting", "quitting"}
                    /\ ProcFirstByte(p) \/ ProcExit(p)

SpecLive ==
    /\ Spec
    /\ WF_vars(RunStep)
    /\ WF_vars(ThreadStep)
    /\ WF_vars(ProcStep)

\* ------------------------------------------- the FileSink under a driver
\* A FileSink taken through the calls the pipeline makes on a sink, open, then
\* writes, then close, once per segment, with segments of any length in ticks.
NoFaults == [k \in FaultKinds |-> 0]

recOnly == <<pc, interrupt, attempts, error_wait_time, last_time, static,
             ffmpeg_stream, stdout_reader_thread, stderr_reader_thread,
             error_queue, proc, rdOut, rdErr, exitcode, spawned, nlines, src,
             lastRaise, leftBy, sleeps, faults, budget>>

InitFs ==
    /\ gc = GcIdle
    /\ aws = AwsIdle
    /\ dm = DaemonIdle
    /\ su = StartupIdle
    /\ yt = YtIdle
    /\ rm = ReadIdle
    /\ cam = CameraIdle
    /\ budget = NoFaults
    /\ conf = [reconnect_attempts |-> 1, reconnect_base_delay |-> 1, segment_length |-> 1]
    /\ sinks = <<1>>
    /\ now \in 0..(TicksPerMinute - 1)
    /\ InitRest

\* FileSink.open; opens[1] holds the times of the calls, created[1] the names
\* of the files the calls have opened.
FsOpen ==
    /\ IF FileSink_is_opened(sink[1])
       THEN Len(opens[1]) - Len(created[1]) < MaxReopens
       ELSE Len(created[1]) < MaxSegments
    /\ LET res == FileSink_open(sink[1], disk[1], now, FALSE)
       IN  /\ sink' = [sink EXCEPT ![1] = res[1]]
           /\ disk' = [disk EXCEPT ![1] = res[2]]
           /\ created' = IF res = <<sink[1], disk[1]>>
                         THEN created
                         ELSE [created EXCEPT ![1] = Append(@, Stamp(now))]
    /\ opens' = [opens EXCEPT ![1] = Append(@, now)]
    /\ UNCHANGED <<recOnly, wlog, now, nread>>

FsWrite ==
    /\ FileSink_is_opened(sink[1])
    /\ nread < MaxBlocks
    /\ LET res == FileSink_write(sink[1], disk[1], nread + 1, FALSE)
       IN  /\ sink' = [sink EXCEPT ![1] = res[1]]
           /\ disk' = [disk EXCEPT ![1] = res[2]]
    /\ nread' = nread + 1
    /\ wlog' = Append(wlog, <<1, nread + 1>>)
    /\ UNCHANGED <<recOnly, opens, created, now>>

FsClose ==
    /\ FileSink_is_opened(sink[1])
    /\ sink' = [sink EXCEPT ![1] = FileSink_close(@, FALSE)]
    /\ UNCHANGED <<recOnly, opens, disk, created, wlog, now, nread>>

\* The clock advances by one tick.
FsTick ==
    /\ now < MaxTime
    /\ now' = now + 1
    /\ UNCHANGED <<recOnly, opens, sink, disk, created, wlog, nread>>

NextFs == FsOpen \/ FsWrite \/ FsClose \/ FsTick

SpecFs == InitFs /\ [][NextFs]_vars

\* ------------------------------------------- the sinks under a driver
\* One sink per run, a FileSink or an AWSBucketSink, taken through the calls
\* of the Sink interface: the sinks share nothing but the clock.
AwsUntouched == aws \in {[AwsIdle EXCEPT !.part_size = p] : p \in {1, MaxPartSize}}

FsUntouched == opens[1] = <<>>

\* -------------------------------------------------------- the retention
\* Time stamps are counted in ticks, TicksPerDay ticks to the day. The items of
\* a storage are numbered in the order the walk or the listing visits them;
\* gc.mtime[i] is the modification time (the end time of a broadcast) of item i.
Backends == {"sweep", "local", "youtube"}

\* A threshold that leaves the retention out.
DueDateToday(today, days) == today

\* datetime.today() - timedelta(days=days), as a time stamp.
DueDate(today, days) == today - days * TicksPerDay

\* A comparison that keeps the item whose time stamp is the threshold.
ExpiredStrict(mtime, due_date) == mtime < due_date

\* The test "getmtime() <= due_date" of the three loops.
Expired(mtime, due_date) == mtime <= due_date

GcItems == 1..Len(gc.mtime)

InitGc ==
    /\ gc \in {[backend |-> b, mtime |-> m, today |-> t, days |-> d,
                pc |-> "start", due_date |-> 0, i |-> 1, page_token |-> 1,
                more_pages |-> TRUE, response |-> <<>>, expired |-> {},
                removed |-> {}] :
               b \in Backends,
               m \in UNION {[1..n -> 0..MaxStamp] : n \in 0..MaxItems},
               t \in 0..MaxStamp,
               d \in (-1)..MaxDays}
    /\ aws = AwsIdle
    /\ dm = DaemonIdle
    /\ su = StartupIdle
    /\ yt = YtIdle
    /\ rm = ReadIdle
    /\ cam = CameraIdle
    /\ budget = NoFaults
    /\ conf = [reconnect_attempts |-> 1, reconnect_base_delay |-> 1, segment_length |-> 1]
    /\ sinks = <<1>>
    /\ now = 0
    /\ InitRest

gcRest == <<pc, interrupt, attempts, error_wait_time, last_time, conf, sinks,
            ffmpeg_stream, stdout_reader_thread, stderr_reader_thread,
            error_queue, proc, rdOut, rdErr, exitcode, spawned, nread, nlines, src,
            lastRaise, leftBy, opens, sleeps, faults, budget, sinkVars, aws, dm, su, yt, rm, cam>>

\* gc.py, line 59 (libreeye/gc.py, line 51): the threshold of one storage.
Sweep_due_date ==
    /\ gc.backend = "sweep"
    /\ gc.pc = "start"
    /\ gc' = [gc EXCEPT !.due_date = DueDate(gc.today, gc.days), !.pc = "walk"]
    /\ UNCHANGED gcRest

\* gc.py, lines 60-63: the next file of the walk is removed if it is expired.
Sweep_file ==
    /\ gc.backend = "sweep"
    /\ gc.pc = "walk"
    /\ gc.i \in GcItems
    /\ gc' = [gc EXCEPT !.i = @ + 1,
                        !.removed = IF Expired(gc.mtime[gc.i], gc.due_date)
                                    THEN @ \cup {gc.i} ELSE @]
    /\ UNCHANGED gcRest

\* gc.py: the walk is over.
Sweep_end ==
    /\ gc.backend = "sweep"
    /\ gc.pc = "walk"
    /\ gc.i \notin GcItems
    /\ gc' = [gc EXCEPT !.pc = "done"]
    /\ UNCHANGED gcRest

\* LocalStorage.list_expired, line 40.
Local_due_date ==
    /\ gc.backend = "local"
    /\ gc.pc = "start"
    /\ gc' = [gc EXCEPT !.due_date = DueDate(gc.today, gc.days), !.pc = "walk"]
    /\ UNCHANGED gcRest

\* LocalStorage.list_expired, lines 41-45: the next file is yielded if expired.
Local_file ==
    /\ gc.backend = "local"
    /\ gc.pc = "walk"
    /\ gc.i \in GcItems
    /\ gc' = [gc EXCEPT !.i = @ + 1,
                        !.expired = IF Expired(gc.mtime[gc.i], gc.due_date)
                                    THEN @ \cup {gc.i} ELSE @]
    /\ UNCHANGED gcRest

\* LocalStorage.list_expired: the generator is exhausted.
Local_end ==
    /\ gc.backend = "local"
    /\ gc.pc = "walk"
    /\ gc.i \notin GcItems
    /\ gc' = [gc EXCEPT !.pc = "done"]
    /\ UNCHANGED gcRest

\* YoutubeStorage.list_expired, lines 80-95: nothing for an expiration <= 0,
\* else the threshold.
Youtube_due_date ==
    /\ gc.backend = "youtube"
    /\ gc.pc = "start"
    /\ gc' = IF gc.days <= 0
             THEN [gc EXCEPT !.pc = "done"]
             ELSE [gc EXCEPT !.due_date = DueDate(gc.today, gc.days), !.pc = "list"]
    /\ UNCHANGED gcRest

\* YoutubeStorage.list_expired, lines 96-102: the next page of the listing.
Youtube_list ==
    /\ gc.backend = "youtube"
    /\ gc.pc = "list"
    /\ gc.more_pages
    /\ LET last == IF gc.page_token + PageSize - 1 < Len(gc.mtime)
                   THEN gc.page_token + PageSize - 1 ELSE Len(gc.mtime)
       IN  gc' = [gc EXCEPT !.response = [k \in 1..(last - gc.page_token + 1) |->
                                             gc.page_token + k - 1],
                            !.i = 1,
                            !.pc = "items"]
    /\ UNCHANGED gcRest

\* YoutubeStorage.list_expired, lines 102-109: the next broadcast of the page.
Youtube_item ==
    /\ gc.backend = "youtube"
    /\ gc.pc = "items"
    /\ gc.i <= Len(gc.response)
    /\ gc' = [gc EXCEPT !.i = @ + 1,
                        !.expired = IF Expired(gc.mtime[gc.response[gc.i]], gc.due_date)
                                    THEN @ \cup {gc.response[gc.i]} ELSE @]
    /\ UNCHANGED gcRest

\* YoutubeStorage.list_expired, lines 110-114: the next page token, or the end.
Youtube_next ==
    /\ gc.backend = "youtube"
    /\ gc.pc = "items"
    /\ gc.i > Len(gc.response)
    /\ LET next == gc.page_token + PageSize
       IN  gc' = IF next <= Len(gc.mtime)
                 THEN [gc EXCEPT !.page_token = next, !.pc = "list"]
                 ELSE [gc EXCEPT !.more_pages = FALSE, !.pc = "done"]
    /\ UNCHANGED gcRest

NextGc ==
    \/ Sweep_due_date
    \/ Sweep_file
    \/ Sweep_end
    \/ Local_due_date
    \/ Local_file
    \/ Local_end
    \/ Youtube_due_date
    \/ Youtube_list
    \/ Youtube_item
    \/ Youtube_next

SpecGc == InitGc /\ [][NextGc]_vars

\* ------------------------------------------------------ the uploader sink
\* The sink is driven through open, write and close by one caller. Upload k is
\* the k-th uploader thread with the transcoder it reads from; aws.pipe[k]
\* counts the units (MiB) the transcoder has put out and the thread has not yet
\* read, aws.out[k] all the units it has put out. A write hands the transcoder
\* BlockUnits units of raw frames, which it encodes into some number of units
\* no greater. aws.s3 is the log of the calls made to S3.
Uploads == 1..Len(aws.thr)

\* An uploader that reuses the part number.
SamePartNumber(num) == num

\* UploadThread._upload_part, line 55.
NextPartNumber(num) == num + 1

S3Call(op, k, num, size, parts, ok) ==
    [op |-> op, id |-> k, num |-> num, size |-> size, parts |-> parts, ok |-> ok]

\* A packet of the configured part size, whatever the minimum.
PacketSizeConfigured(part_size) == part_size

\* _create_upload_thread, line 138: max(self._part_min_size, self._part_size).
PacketSize(part_size) == IF part_size > PartMinUnits THEN part_size ELSE PartMinUnits

\* `since`: the time at which the S3 request the thread is in was sent.
NewThread == [pc |-> "create", num |-> 0, parts |-> <<>>, buffer |-> 0, since |-> now]

\* _open_stream and _create_upload_thread: a new transcoder and a new thread.
OpenStream(a) ==
    [a EXCEPT !.ffmpeg_subprocess = Len(a.thr) + 1,
              !.thread = Len(a.thr) + 1,
              !.thread_exception = "none",
              !.last_write = now % length,
              !.stdin_closed = Append(@, FALSE),
              !.pipe = Append(@, 0),
              !.out = Append(@, 0),
              !.thr = Append(@, NewThread)]

InitAws ==
    /\ aws \in {[AwsIdle EXCEPT !.part_size = p] : p \in {1, MaxPartSize}}
    /\ gc = GcIdle
    /\ dm = DaemonIdle
    /\ su = StartupIdle
    /\ yt = YtIdle
    /\ rm = ReadIdle
    /\ cam = CameraIdle
    /\ budget = NoFaults
    /\ conf = [reconnect_attempts |-> 1, reconnect_base_delay |-> 1, segment_length |-> 1]
    /\ sinks = <<1>>
    /\ now \in 0..(length - 1)
    /\ InitRest

awsRest == <<pc, interrupt, attempts, error_wait_time, last_time, conf, sinks,
             ffmpeg_stream, stdout_reader_thread, stderr_reader_thread,
             error_queue, proc, rdOut, rdErr, exitcode, spawned, nread, nlines, src,
             lastRaise, leftBy, opens, sleeps, faults, budget,
             sink, disk, created, wlog, gc, dm, su, yt, rm, cam>>

\* A write that does not look at the exception the thread has stored.
NoThreadException(a) == FALSE

\* AWSBucketSink.write, line 202: self._thread_exception is not None.
HasThreadException(a) == a.thread_exception # "none"

\* AWSBucketSink.open; `ok`: list_buckets answers and names the bucket. A
\* call on an open sink returns at line 163; reopens counts these calls.
AWS_open(ok) ==
    /\ aws.pc \in {"closed", "failed", "open"}
    /\ IF aws.ffmpeg_subprocess # NoProc
       THEN ok /\ aws.reopens < MaxReopens
       ELSE Len(aws.thr) < MaxUploads /\ (~ok => aws.errors < MaxS3Errors)
    /\ aws' = IF aws.ffmpeg_subprocess # NoProc
              THEN [aws EXCEPT !.reopens = @ + 1]
              ELSE IF ok
              THEN [OpenStream(aws) EXCEPT !.pc = "open", !.first = Len(aws.thr) + 1,
                                           !.raised = [by |-> "none", err |-> "none"]]
              ELSE [aws EXCEPT !.pc = "failed", !.errors = @ + 1,
                               !.raised = [by |-> "open", err |-> "ENETUNREACH"]]
    /\ UNCHANGED <<awsRest, now>>

\* AWSBucketSink.write, up to the point where it waits or returns: a stored
\* exception of the thread is raised through _close_stream; on a wrap of the
\* clock the stream is closed and the write waits for the thread; else the
\* frames go to the transcoder, which encodes them into `out` units.
AWS_write(out) ==
    /\ aws.pc = "open"
    /\ aws.nwrites < MaxWrites
    /\ LET k == aws.ffmpeg_subprocess
           t == now % length
       IN  aws' = IF HasThreadException(aws)
                  THEN [aws EXCEPT !.stdin_closed[k] = TRUE,
                                   !.ffmpeg_subprocess = NoProc,
                                   !.thread = NoProc,
                                   !.thread_exception = "none",
                                   !.raised = [by |-> "write", err |-> aws.thread_exception],
                                   !.pc = "failed"]
                  ELSE IF t < aws.last_write
                  THEN [aws EXCEPT !.stdin_closed[k] = TRUE, !.pc = "write_wait"]
                  ELSE [aws EXCEPT !.pipe[k] = @ + out,
                                   !.out[k] = @ + out,
                                   !.last_write = t,
                                   !.nwrites = @ + 1]
    /\ (HasThreadException(aws) \/ now % length < aws.last_write) => out = BlockUnits
    /\ UNCHANGED <<awsRest, now>>

\* AWSBucketSink.close, up to the wait of _close_stream. On a sink that is
\* not open, line 145 reads the stdin of None and raises AttributeError.
AWS_close ==
    /\ aws.pc \in {"open", "closed", "failed"}
    /\ aws' = IF aws.ffmpeg_subprocess = NoProc
              THEN [aws EXCEPT !.raised = [by |-> "close", err |-> "AttributeError"],
                               !.pc = "failed"]
              ELSE [aws EXCEPT !.stdin_closed[aws.ffmpeg_subprocess] = TRUE,
                               !.wait_since = now,
                               !.pc = "close_wait"]
    /\ UNCHANGED <<awsRest, now>>

\* _close_stream, lines 147-158, and what follows it in write, lines 210-215:
\* the wait ends when the thread has ended or has stored an exception; the
\* references are cleared and the exception, if any, is raised; a write goes
\* on with a new stream and a new thread and writes its frames, which the new
\* transcoder encodes into `out` units.
AWS_close_stream_end(out) ==
    /\ aws.pc \in {"write_wait", "close_wait"}
    /\ \/ aws.thr[aws.thread].pc \in {"done", "dead"}
       \/ aws.thread_exception # "none"
    /\ LET cleared == [aws EXCEPT !.ffmpeg_subprocess = NoProc, !.thread = NoProc,
                                  !.wait_since = 0]
       IN  aws' = IF aws.thread_exception # "none"
                  THEN [cleared EXCEPT !.thread_exception = "none", !.pc = "failed",
                                       !.raised = [by |-> IF aws.pc = "write_wait"
                                                          THEN "write" ELSE "close",
                                                   err |-> aws.thread_exception]]
                  ELSE IF aws.pc = "close_wait"
                  THEN [cleared EXCEPT !.pc = "closed"]
                  ELSE [OpenStream(cleared) EXCEPT
                            !.pipe = Append(cleared.pipe, out),
                            !.out = Append(cleared.out, out),
                            !.nwrites = @ + 1,
                            !.pc = "open"]
    /\ aws.pc = "write_wait" /\ aws.thread_exception = "none" => Len(aws.thr) < MaxUploads
    /\ (aws.pc = "close_wait" \/ aws.thread_exception # "none") => out = BlockUnits
    /\ UNCHANGED <<awsRest, now>>

\* UploadThread._create_multiupload; `ok`: S3 answers, else the request times
\* out, the error is stored on the sink and the thread exits.
Upload_create(k, ok) ==
    /\ k \in Uploads
    /\ aws.thr[k].pc = "create"
    /\ ~ok => aws.errors < MaxS3Errors
    /\ aws' = [aws EXCEPT
                 !.s3 = Append(@, S3Call("create", k, 0, 0, <<>>, ok)),
                 !.thr[k] = IF ok THEN [@ EXCEPT !.pc = "read", !.num = 1, !.parts = <<>>,
                                                 !.since = 0]
                            ELSE [@ EXCEPT !.pc = "dead", !.since = 0],
                 !.thread_exception = IF ok THEN @ ELSE "ENETUNREACH",
                 !.errors = IF ok THEN @ ELSE @ + 1]
    /\ UNCHANGED <<awsRest, now>>

\* UploadThread.run, lines 72-75: read(packet_size) returns a full packet, or
\* what is left once the transcoder's input is closed, or nothing at its end.
Upload_read(k) ==
    /\ k \in Uploads
    /\ aws.thr[k].pc = "read"
    /\ aws.pipe[k] >= PacketSize(aws.part_size) \/ aws.stdin_closed[k]
    /\ LET n == IF aws.pipe[k] >= PacketSize(aws.part_size)
                THEN PacketSize(aws.part_size) ELSE aws.pipe[k]
       IN  aws' = [aws EXCEPT
                     !.pipe[k] = @ - n,
                     !.thr[k] = IF n = 0 THEN [@ EXCEPT !.pc = "complete", !.since = now]
                                ELSE [@ EXCEPT !.pc = "part", !.buffer = n, !.since = now]]
    /\ UNCHANGED <<awsRest, now>>

\* UploadThread._upload_part.
Upload_part(k, ok) ==
    /\ k \in Uploads
    /\ aws.thr[k].pc = "part"
    /\ ~ok => aws.errors < MaxS3Errors
    /\ aws' = [aws EXCEPT
                 !.s3 = Append(@, S3Call("part", k, aws.thr[k].num, aws.thr[k].buffer, <<>>, ok)),
                 !.thr[k] = IF ok
                            THEN [@ EXCEPT !.pc = "read",
                                           !.parts = Append(@, aws.thr[k].num),
                                           !.num = NextPartNumber(@),
                                           !.buffer = 0,
                                           !.since = 0]
                            ELSE [@ EXCEPT !.pc = "dead", !.since = 0],
                 !.thread_exception = IF ok THEN @ ELSE "ETIMEDOUT",
                 !.errors = IF ok THEN @ ELSE @ + 1]
    /\ UNCHANGED <<awsRest, now>>

\* UploadThread.run, lines 78-80, and _complete_upload.
Upload_complete(k, ok) ==
    /\ k \in Uploads
    /\ aws.thr[k].pc = "complete"
    /\ ~ok => aws.errors < MaxS3Errors
    /\ aws' = [aws EXCEPT
                 !.s3 = Append(@, S3Call("complete", k, 0, 0, aws.thr[k].parts, ok)),
                 !.thr[k] = IF ok THEN [@ EXCEPT !.pc = "done", !.since = 0]
                            ELSE [@ EXCEPT !.pc = "dead", !.since = 0],
                 !.thread_exception = IF ok THEN @ ELSE "ETIMEDOUT",
                 !.errors = IF ok THEN @ ELSE @ + 1]
    /\ UNCHANGED <<awsRest, now>>

\* The clock advances by one tick; the S3 client is configured with the
\* time-out (open, lines 169-176), so no request stays unanswered for longer,
\* and a read of the pipe that can return takes no time.
AwsTick ==
    /\ now < MaxTime
    /\ \A k \in Uploads :
          /\ aws.thr[k].pc \in {"create", "part", "complete"}
                => now + 1 - aws.thr[k].since <= TimeoutTicks
          /\ aws.thr[k].pc = "read"
                => aws.pipe[k] < PacketSize(aws.part_size) /\ ~aws.stdin_closed[k]
    /\ now' = now + 1
    /\ UNCHANGED <<awsRest, aws>>

NextAws ==
    \/ \E ok \in BOOLEAN : AWS_open(ok)
    \/ \E out \in 1..BlockUnits : AWS_write(out)
    \/ AWS_close
    \/ \E out \in 1..BlockUnits : AWS_close_stream_end(out)
    \/ \E k \in 1..MaxUploads, ok \in BOOLEAN : Upload_create(k, ok)
    \/ \E k \in 1..MaxUploads : Upload_read(k)
    \/ \E k \in 1..MaxUploads, ok \in BOOLEAN : Upload_part(k, ok)
    \/ \E k \in 1..MaxUploads, ok \in BOOLEAN : Upload_complete(k, ok)
    \/ AwsTick

SpecAws == InitAws /\ [][NextAws]_vars

NextSinks ==
    \/ AwsUntouched /\ FsOpen
    \/ AwsUntouched /\ FsWrite
    \/ AwsUntouched /\ FsClose
    \/ AwsUntouched /\ FsTick
    \/ FsUntouched /\ \E ok \in BOOLEAN : AWS_open(ok)
    \/ FsUntouched /\ \E out \in 1..BlockUnits : AWS_write(out)
    \/ FsUntouched /\ AWS_close
    \/ FsUntouched /\ \E out \in 1..BlockUnits : AWS_close_stream_end(out)
    \/ FsUntouched /\ \E k \in 1..MaxUploads, ok \in BOOLEAN : Upload_create(k, ok)
    \/ FsUntouched /\ \E k \in 1..MaxUploads : Upload_read(k)
    \/ FsUntouched /\ \E k \in 1..MaxUploads, ok \in BOOLEAN : Upload_part(k, ok)
    \/ FsUntouched /\ \E k \in 1..MaxUploads, ok \in BOOLEAN : Upload_complete(k, ok)
    \/ FsUntouched /\ AwsTick

SpecSinks == InitAws /\ [][NextSinks]_vars

\* ------------------------------------------------- the transcoder start-up
\* One call of CameraRecorder._open_ffmpeg_stream: the calling thread, the
\* transcoder and the stderr reader thread, interleaved at each read and write
\* of the pipe and of the error queue.
startupRest == <<pc, interrupt, attempts, error_wait_time, last_time, conf, sinks,
                 ffmpeg_stream, stdout_reader_thread, stderr_reader_thread,
                 error_queue, proc, rdOut, rdErr, exitcode, spawned, nread, nlines,
                 src, lastRaise, leftBy, opens, sleeps, faults, budget,
                 sinkVars, gc, aws, dm, yt, rm, cam>>

InitStartup ==
    /\ su = [StartupIdle EXCEPT !.pc = "call"]
    /\ yt = YtIdle
    /\ rm = ReadIdle
    /\ cam = CameraIdle
    /\ gc = GcIdle
    /\ aws = AwsIdle
    /\ dm = DaemonIdle
    /\ budget = NoFaults
    /\ conf = [reconnect_attempts |-> 1, reconnect_base_delay |-> 1, segment_length |-> 1]
    /\ sinks = <<1>>
    /\ now = 0
    /\ InitRest

\* _open_ffmpeg_stream, lines 108-132: spawn the transcoder, make the error
\* queue and start the stderr reader.
Startup_spawn ==
    /\ su.pc = "call"
    /\ su' = [su EXCEPT !.pc = "peek", !.proc = "starting", !.rd = "run"]
    /\ UNCHANGED startupRest

\* _open_ffmpeg_stream, lines 133-134: stdout.peek(1) returns when the
\* transcoder has written a byte or has closed its stdout.
Startup_peek ==
    /\ su.pc = "peek"
    /\ su.proc \in {"running", "exited"}
    /\ su' = [su EXCEPT !.pc = "drain"]
    /\ UNCHANGED startupRest

\* _open_ffmpeg_stream, lines 135-152: one pass of the loop over the error
\* queue. An empty queue ends the call, the stdout reader is started; a
\* warning is logged; an error terminates the transcoder and is raised.
Startup_drain ==
    /\ su.pc = "drain"
    /\ su' = IF su.queue = <<>>
             THEN [su EXCEPT !.pc = "started"]
             ELSE IF IsWarning(Head(su.queue))
             THEN [su EXCEPT !.queue = Tail(@)]
             ELSE [su EXCEPT !.queue = Tail(@),
                             !.proc = "exited",
                             !.killed = TRUE,
                             !.err = Head(su.queue),
                             !.pc = "raised"]
    /\ UNCHANGED startupRest

\* The transcoder writes a line to its stderr.
Transcoder_stderr(line) ==
    /\ su.proc \in {"starting", "running"}
    /\ su.nl < MaxLines
    /\ su' = [su EXCEPT !.pipe = Append(@, line),
                        !.nl = @ + 1,
                        !.fatal = @ \/ ~IsWarning(parse_error_msg(line))]
    /\ UNCHANGED startupRest

\* The transcoder writes its first output byte.
Transcoder_first_byte ==
    /\ su.proc = "starting"
    /\ su' = [su EXCEPT !.proc = "running", !.byte = TRUE]
    /\ UNCHANGED startupRest

\* The transcoder exits by itself: its stdout and stderr are at end of file
\* once read empty.
Transcoder_exit ==
    /\ su.proc \in {"starting", "running"}
    /\ su' = [su EXCEPT !.proc = "exited"]
    /\ UNCHANGED startupRest

\* _ErrReaderThread.run, lines 69-81: the thread has read a line up to its
\* newline, classifies it and puts it on the queue.
Startup_ErrReader_line ==
    /\ su.rd = "run"
    /\ su.pipe # <<>>
    /\ su' = [su EXCEPT !.queue = Append(@, parse_error_msg(Head(su.pipe))),
                        !.pipe = Tail(@)]
    /\ UNCHANGED startupRest

\* _ErrReaderThread.run, lines 70-73: read(1) returns nothing, the thread ends.
Startup_ErrReader_eof ==
    /\ su.rd = "run"
    /\ su.pipe = <<>>
    /\ su.proc = "exited"
    /\ su' = [su EXCEPT !.rd = "done"]
    /\ UNCHANGED startupRest

StartupStep ==
    \/ Startup_spawn
    \/ Startup_peek
    \/ Startup_drain

StartupReaderStep ==
    \/ Startup_ErrReader_line
    \/ Startup_ErrReader_eof

NextStartup ==
    \/ Startup_spawn
    \/ Startup_peek
    \/ Startup_drain
    \/ \E line \in Lines : Transcoder_stderr(line)
    \/ Transcoder_first_byte
    \/ Transcoder_exit
    \/ Startup_ErrReader_line
    \/ Startup_ErrReader_eof

SpecStartup == InitStartup /\ [][NextStartup]_vars

\* The calling thread and the reader thread keep running while they have a
\* step to make; nothing is assumed of the transcoder.
SpecStartupLive ==
    /\ SpecStartup
    /\ WF_vars(StartupStep)
    /\ WF_vars(StartupReaderStep)

\* -------------------------------------------------------------- the daemon
\* The main thread of Daemon.run and one request handler thread, interleaved
\* at each read or write of a camera's state and each call to docker. Time is
\* counted in ticks, WatchdogDelay ticks to the 60 s of _WATCHDOG_DELAY; the
\* 2.5 s of the scheduler loop and the calls to docker take no time.
daemonRest == <<pc, interrupt, attempts, error_wait_time, last_time, conf, sinks,
                ffmpeg_stream, stdout_reader_thread, stderr_reader_thread,
                error_queue, proc, rdOut, rdErr, exitcode, spawned, nread, nlines,
                src, lastRaise, leftBy, opens, sleeps, faults, budget,
                sink, disk, created, wlog, gc, aws, su, yt, rm, cam>>

InitDaemon ==
    /\ dm \in {[DaemonIdle EXCEPT !.watchdog = w,
                                  !.instance = 0,
                                  !.created = 0,
                                  !.initialized = FALSE,
                                  !.inits = 0,
                                  !.wd_next = Never,
                                  !.gc_next = Never,
                                  !.queue = NoEvents,
                                  !.main = [@ EXCEPT !.pc = "main"]] :
               w \in BOOLEAN}
    /\ gc = GcIdle
    /\ aws = AwsIdle
    /\ su = StartupIdle
    /\ yt = YtIdle
    /\ rm = ReadIdle
    /\ cam = CameraIdle
    /\ budget = NoFaults
    /\ conf = [reconnect_attempts |-> 1, reconnect_base_delay |-> 1, segment_length |-> 1]
    /\ sinks = <<1>>
    /\ now = 0
    /\ InitRest

\* scheduler.enter(delay, priority, action): one more pending event.
sched_enter(q, task) == [q EXCEPT ![task] = @ + 1]

\* A scheduler that fires an event and keeps it in its queue.
sched_pop_keep(q, task) == q

\* scheduler.run(blocking=False), line 449: the event that is due is taken
\* off the queue before its action is called.
sched_pop(q, task) == [q EXCEPT ![task] = @ - 1]

\* A __new__ that makes an object at every call.
Daemon_newAlways(d) ==
    [d EXCEPT !.instance = d.created + 1, !.created = @ + 1, !.initialized = FALSE]

\* Daemon.__new__, lines 96-100: the object is made at the first call.
Daemon_new(d) ==
    IF d.instance = 0
    THEN [d EXCEPT !.instance = d.created + 1, !.created = @ + 1, !.initialized = FALSE]
    ELSE d

\* Daemon.__init__, lines 102-134, at time t: the body runs unless the object
\* is initialised; it sets the flags and the camera list anew and schedules
\* the watchdog and the retention sweep.
Daemon_init(d, t) ==
    IF d.initialized
    THEN d
    ELSE [d EXCEPT !.initialized = TRUE,
                   !.inits = @ + 1,
                   !.daemon_active = TRUE,
                   !.active = [c \in Cameras |-> FALSE],
                   !.wd_next = IF d.watchdog THEN t + WatchdogDelay ELSE Never,
                   !.gc_next = t + GcFrequency,
                   !.queue = sched_enter(IF d.watchdog
                                         THEN sched_enter(NoEvents, "watchdog")
                                         ELSE NoEvents, "gc")]

\* The call Daemon(): __new__, then __init__ on the object it returned.
Daemon_call(d, t) == Daemon_init(Daemon_new(d), t)

\* Daemon._is_container_running: a running container of that name is listed.
is_container_running(d, id) == d.running[id]

\* A start_camera that does not look for a running container.
NeverRunning(d, id) == FALSE

\* start_camera, lines 260-263: the test that raises RuntimeError.
AlreadyRunning(d, id) == is_container_running(d, id)

\* Daemon.start_camera, one step of it: "flag", line 258; "check", lines
\* 260-263; "run", lines 264-316, where docker refuses a name that is in use.
\* `explicit`: the call comes from a request or from run(), not from the
\* watchdog. The result is the daemon's state, the step that follows and the
\* exception raised, if any.
start_camera(d, id, step, explicit) ==
    CASE step = "flag" ->
           [d |-> [d EXCEPT !.active[id] = TRUE,
                            !.last[id] = "start",
                            !.stopped[id] = IF explicit THEN FALSE ELSE @],
            step |-> "check", err |-> "none"]
      [] step = "check" ->
           IF AlreadyRunning(d, id)
           THEN [d |-> d, step |-> "raised", err |-> "RuntimeError"]
           ELSE [d |-> d, step |-> "run", err |-> "none"]
      [] OTHER ->
           IF d.running[id]
           THEN [d |-> d, step |-> "raised", err |-> "APIError"]
           ELSE [d |-> [d EXCEPT !.running[id] = TRUE, !.died[id] = Never],
                 step |-> "done", err |-> "none"]

\* Daemon.stop_camera, one step of it: "flag", line 320; "list", lines 321-330;
\* "kill", lines 331-334, where docker refuses a container that is gone.
stop_camera(d, id, step) ==
    CASE step = "flag" ->
           [d |-> [d EXCEPT !.active[id] = FALSE,
                            !.last[id] = "stop",
                            !.stopped[id] = TRUE,
                            !.died[id] = Never],
            step |-> "list", err |-> "none"]
      [] step = "list" ->
           IF is_container_running(d, id)
           THEN [d |-> d, step |-> "kill", err |-> "none"]
           ELSE [d |-> d, step |-> "raised", err |-> "NameError"]
      [] OTHER ->
           IF d.running[id]
           THEN [d |-> [d EXCEPT !.running[id] = FALSE], step |-> "done", err |-> "none"]
           ELSE [d |-> d, step |-> "raised", err |-> "APIError"]

\* Daemon.run_garbage_collector, one step of it by thread `who`: "gccheck",
\* lines 363-365; "gcrun", lines 384-424, where docker refuses a name that is
\* in use. With wait=True the caller then waits for the container to end
\* (lines 425-427), with wait=False it returns at once.
run_garbage_collector(d, step, who, wait) ==
    CASE step = "gccheck" ->
           IF d.gc # "none"
           THEN [d |-> d, step |-> "raised", err |-> "RuntimeError"]
           ELSE [d |-> d, step |-> "gcrun", err |-> "none"]
      [] OTHER ->
           IF d.gc # "none"
           THEN [d |-> d, step |-> "raised", err |-> "APIError"]
           ELSE [d |-> [d EXCEPT !.gc = who],
                 step |-> IF wait THEN "gcwait" ELSE "done", err |-> "none"]

\* A listing that reports whether the container runs.
ListedRunning(d, id) ==
    IF d.running[id] THEN "active running" ELSE "inactive"

\* Daemon.list_cameras, lines 341-356: what it reports of one camera.
ListedActive(d, id) ==
    IF ~d.active[id] THEN "inactive"
    ELSE IF d.running[id] THEN "active running"
    ELSE "active exited"

\* The main thread after it is done with camera i: the next camera, or the
\* scheduler loop after the last.
MainNext(m) ==
    IF m.i + 1 = NCameras
    THEN [m EXCEPT !.pc = "loop", !.i = 0, !.step = "none"]
    ELSE [m EXCEPT !.i = @ + 1, !.step = IF m.pc = "run" THEN "flag" ELSE "active"]

\* The main thread after it has stopped camera i at the end of Daemon.run:
\* the next camera, or the return of run() after the last.
MainNextStop(m) ==
    IF m.i + 1 = NCameras
    THEN [m EXCEPT !.pc = "returned", !.i = 0, !.step = "none"]
    ELSE [m EXCEPT !.i = @ + 1, !.step = "flag"]

\* The main thread makes a step of start_camera(i); an exception ends
\* Daemon.run, as nothing catches it.
MainStartCamera(explicit) ==
    LET r == start_camera(dm, dm.main.i, dm.main.step, explicit)
    IN  dm' = [r.d EXCEPT !.main =
                 IF r.step = "raised" THEN [dm.main EXCEPT !.pc = "crashed", !.err = r.err]
                 ELSE IF r.step = "done" THEN MainNext(dm.main)
                 ELSE [dm.main EXCEPT !.step = r.step]]

\* main, line 480: d = Daemon(), before the process becomes a daemon and
\* before any other thread exists.
Daemon_main ==
    /\ dm.main.pc = "main"
    /\ dm' = [Daemon_call(dm, now) EXCEPT !.main = [@ EXCEPT !.pc = "run"]]
    /\ UNCHANGED <<daemonRest, now>>

\* Daemon.run, lines 433-434: start every camera.
Daemon_run ==
    /\ dm.main.pc = "run"
    /\ MainStartCamera(TRUE)
    /\ UNCHANGED <<daemonRest, now>>

\* _sched_docker_watchdog, lines 229-231, run by the scheduler loop when it is
\* due: the next run is scheduled one delay from now.
Watchdog_enter ==
    /\ dm.main.pc = "loop"
    /\ dm.watchdog
    /\ now >= dm.wd_next
    /\ dm' = [dm EXCEPT !.wd_next = now + WatchdogDelay,
                        !.queue = sched_enter(sched_pop(@, "watchdog"), "watchdog"),
                        !.main = [@ EXCEPT !.pc = "watchdog", !.i = 0, !.step = "active"]]
    /\ UNCHANGED <<daemonRest, now>>

\* _sched_docker_watchdog, lines 234-235: skip a camera that is not active.
Watchdog_active ==
    /\ dm.main.pc = "watchdog"
    /\ dm.main.step = "active"
    /\ dm' = [dm EXCEPT !.main = IF dm.active[dm.main.i]
                                 THEN [@ EXCEPT !.step = "running"]
                                 ELSE MainNext(@)]
    /\ UNCHANGED <<daemonRest, now>>

\* _sched_docker_watchdog, lines 236-238: skip a camera whose container runs.
Watchdog_running ==
    /\ dm.main.pc = "watchdog"
    /\ dm.main.step = "running"
    /\ dm' = [dm EXCEPT !.main = IF is_container_running(dm, dm.main.i)
                                 THEN MainNext(@)
                                 ELSE [@ EXCEPT !.step = "flag"]]
    /\ UNCHANGED <<daemonRest, now>>

\* _sched_docker_watchdog, line 241: self.start_camera(i).
Watchdog_start_camera ==
    /\ dm.main.pc = "watchdog"
    /\ dm.main.step \in {"flag", "check", "run"}
    /\ MainStartCamera(FALSE)
    /\ UNCHANGED <<daemonRest, now>>

\* _sched_gc, lines 245-250, run by the scheduler loop when it is due: the
\* next run is scheduled one period from now.
Sched_gc_enter ==
    /\ dm.main.pc = "loop"
    /\ now >= dm.gc_next
    /\ dm' = [dm EXCEPT !.gc_next = now + GcFrequency,
                        !.queue = sched_enter(sched_pop(@, "gc"), "gc"),
                        !.main = [@ EXCEPT !.pc = "gc", !.step = "gccheck"]]
    /\ UNCHANGED <<daemonRest, now>>

\* _sched_gc, line 252: self.run_garbage_collector(wait=False); an exception
\* ends Daemon.run, as nothing catches it.
Sched_gc_run ==
    /\ dm.main.pc = "gc"
    /\ LET r == run_garbage_collector(dm, dm.main.step, "main", FALSE)
       IN  dm' = [r.d EXCEPT !.main =
                    IF r.step = "raised" THEN [dm.main EXCEPT !.pc = "crashed", !.err = r.err]
                    ELSE IF r.step = "done" THEN [dm.main EXCEPT !.pc = "loop", !.step = "none"]
                    ELSE [dm.main EXCEPT !.step = r.step]]
    /\ UNCHANGED <<daemonRest, now>>

\* Daemon.terminate, lines 457-459, the handler of SIGTERM (line 486): the
\* signal is delivered at any point of run(). A daemon told to terminate is
\* not expected to restart a container: the times of death are forgotten.
Daemon_terminate ==
    /\ dm.daemon_active
    /\ dm.main.pc \notin {"main", "crashed", "returned"}
    /\ dm' = [dm EXCEPT !.daemon_active = FALSE,
                        !.died = [c \in Cameras |-> Never]]
    /\ UNCHANGED <<daemonRest, now>>

\* Daemon.run, lines 448-452: the loop finds the flag cleared, the server is
\* shut down and closed, which waits for the handler threads (the end of the
\* with block), and the main thread goes on to stop the cameras.
Daemon_shutdown ==
    /\ dm.main.pc = "loop"
    /\ ~dm.daemon_active
    /\ dm.h.step \in {"idle", "done"}
    /\ dm' = [dm EXCEPT !.main = [@ EXCEPT !.pc = "stopall", !.i = 0, !.step = "flag"]]
    /\ UNCHANGED <<daemonRest, now>>

\* Daemon.run, lines 454-455: self.stop_camera(i) for every camera, one step
\* of it; an exception ends Daemon.run, as nothing catches it.
Daemon_stop_all ==
    /\ dm.main.pc = "stopall"
    /\ LET r == stop_camera(dm, dm.main.i, dm.main.step)
       IN  dm' = [r.d EXCEPT !.main =
                    IF r.step = "raised" THEN [dm.main EXCEPT !.pc = "crashed", !.err = r.err]
                    ELSE IF r.step = "done" THEN MainNextStop(dm.main)
                    ELSE [dm.main EXCEPT !.step = r.step]]
    /\ UNCHANGED <<daemonRest, now>>

\* _ThreadingUnixRequestHandler.handle: a request arrives on the socket, which
\* Daemon.run serves from the end of its start-up until it ends (lines 436-452).
\* The handler of each kind of request starts by the call Daemon() (lines 49,
\* 52, 56, 62).
Handler_handle(op, id) ==
    /\ dm.main.pc \in {"loop", "watchdog", "gc"}
    /\ dm.h.step \in {"idle", "done"}
    /\ dm.nreq < MaxRequests
    /\ op \in {"ls", "gc"} => id = 0
    /\ LET d == Daemon_call(dm, now)
       IN  dm' = [d EXCEPT !.nreq = @ + 1,
                           !.h = [NoRequest EXCEPT !.op = op, !.id = id,
                                                   !.obj = d.instance,
                                                   !.step = CASE op = "ls" -> "ls"
                                                              [] op = "gc" -> "gccheck"
                                                              [] OTHER -> "flag"]]
    /\ UNCHANGED <<daemonRest, now>>

\* The handler thread makes a step of start_camera(id); an exception ends the
\* thread, and the request gets no reply.
Handler_start_camera ==
    /\ dm.h.op = "start"
    /\ dm.h.step \in {"flag", "check", "run"}
    /\ LET r == start_camera(dm, dm.h.id, dm.h.step, TRUE)
       IN  dm' = [r.d EXCEPT !.h = [dm.h EXCEPT
                     !.step = IF r.step = "raised" THEN "done" ELSE r.step,
                     !.err = r.err]]
    /\ UNCHANGED <<daemonRest, now>>

\* The handler thread makes a step of stop_camera(id), lines 55-59: the reply
\* frame is written when stop_camera has returned the exit code; an exception
\* ends the thread before.
Handler_stop_camera ==
    /\ dm.h.op = "stop"
    /\ dm.h.step \in {"flag", "list", "kill"}
    /\ LET r == stop_camera(dm, dm.h.id, dm.h.step)
       IN  dm' = [r.d EXCEPT !.h = [dm.h EXCEPT
                     !.step = IF r.step = "raised" THEN "done" ELSE r.step,
                     !.err = r.err,
                     !.frames = IF r.step = "done" THEN @ + 1 ELSE @]]
    /\ UNCHANGED <<daemonRest, now>>

\* The handler thread makes a step of run_garbage_collector(), lines 61-65:
\* the reply frame is written when the container has ended and the call has
\* returned its exit code; an exception ends the thread before.
Handler_run_gc ==
    /\ dm.h.op = "gc"
    /\ dm.h.step \in {"gccheck", "gcrun", "gcreply"}
    /\ IF dm.h.step = "gcreply"
       THEN dm' = [dm EXCEPT !.h = [@ EXCEPT !.step = "done", !.frames = @ + 1]]
       ELSE LET r == run_garbage_collector(dm, dm.h.step, "handler", TRUE)
            IN  dm' = [r.d EXCEPT !.h = [dm.h EXCEPT
                          !.step = IF r.step = "raised" THEN "done" ELSE r.step,
                          !.err = r.err]]
    /\ UNCHANGED <<daemonRest, now>>

\* The handler thread makes a step of list_cameras: the next camera.
Handler_list_cameras ==
    /\ dm.h.op = "ls"
    /\ dm.h.step = "ls"
    /\ dm' = [dm EXCEPT !.h = [@ EXCEPT
                 !.reply[dm.h.id] = ListedActive(dm, dm.h.id),
                 !.id = IF dm.h.id + 1 = NCameras THEN 0 ELSE @ + 1,
                 !.step = IF dm.h.id + 1 = NCameras THEN "done" ELSE "ls",
                 !.frames = IF dm.h.id + 1 = NCameras THEN @ + 1 ELSE @]]
    /\ UNCHANGED <<daemonRest, now>>

\* The recorder in the container of camera c ends by itself; the time is
\* noted if the camera is active and the daemon is running.
Container_exit(c) ==
    /\ dm.running[c]
    /\ dm.deaths < MaxDeaths
    /\ dm' = [dm EXCEPT !.running[c] = FALSE,
                        !.deaths = @ + 1,
                        !.died[c] = IF /\ dm.active[c]
                                       /\ dm.daemon_active
                                       /\ dm.main.pc \notin {"crashed", "stopall", "returned"}
                                    THEN now ELSE Never]
    /\ UNCHANGED <<daemonRest, now>>

\* The retention container ends: a run_garbage_collector that waits for it
\* returns (line 426).
Gc_exit ==
    /\ dm.gc # "none"
    /\ dm' = [dm EXCEPT !.gc = "none",
                        !.h = IF dm.gc = "handler" /\ dm.h.step = "gcwait"
                              THEN [@ EXCEPT !.step = "gcreply"] ELSE @]
    /\ UNCHANGED <<daemonRest, now>>

\* The clock advances by one tick, while no thread is in the middle of a call
\* and no scheduled run is due and waiting for the scheduler loop. A handler
\* that waits for the retention container lets time pass; the loop leaves
\* within its 2.5 s once the flag is cleared.
DaemonTick ==
    /\ now < MaxTime
    /\ dm.main.pc \in {"loop", "crashed", "returned"}
    /\ dm.h.step \in {"idle", "done", "gcwait"}
    /\ ~(dm.main.pc = "loop" /\ ~dm.daemon_active /\ dm.h.step # "gcwait")
    /\ ~(dm.main.pc = "loop" /\ dm.watchdog /\ now >= dm.wd_next)
    /\ ~(dm.main.pc = "loop" /\ now >= dm.gc_next)
    /\ now' = now + 1
    /\ UNCHANGED <<daemonRest, dm>>

NextDaemon ==
    \/ Daemon_main
    \/ Daemon_run
    \/ Watchdog_enter
    \/ Watchdog_active
    \/ Watchdog_running
    \/ Watchdog_start_camera
    \/ Sched_gc_enter
    \/ Sched_gc_run
    \/ Daemon_terminate
    \/ Daemon_shutdown
    \/ Daemon_stop_all
    \/ \E op \in {"start", "stop", "ls", "gc"}, id \in Cameras : Handler_handle(op, id)
    \/ Handler_start_camera
    \/ Handler_stop_camera
    \/ Handler_run_gc
    \/ Gc_exit
    \/ Handler_list_cameras
    \/ \E c \in Cameras : Container_exit(c)
    \/ DaemonTick

SpecDaemon == InitDaemon /\ [][NextDaemon]_vars

\* The steps of the main thread and of the handler thread. Each thread keeps
\* running while it has a step to make: the calls to docker return, and the
\* retention container, which makes one sweep, ends.
MainStep ==
    \/ Daemon_main
    \/ Daemon_run
    \/ Watchdog_enter
    \/ Watchdog_active
    \/ Watchdog_running
    \/ Watchdog_start_camera
    \/ Sched_gc_enter
    \/ Sched_gc_run
    \/ Daemon_shutdown
    \/ Daemon_stop_all

HandlerStep ==
    \/ Handler_start_camera
    \/ Handler_stop_camera
    \/ Handler_list_cameras
    \/ Handler_run_gc

SpecDaemonLive ==
    /\ SpecDaemon
    /\ WF_vars(MainStep)
    /\ WF_vars(HandlerStep)
    /\ WF_vars(Gc_exit)

\* ---------------------------------------------------------- YoutubeWriter
\* One YoutubeWriter (libreeye/storage/youtube.py): the thread that calls
\* write, the background threads write starts, and the uploader processes
\* they open, interleaved at each assignment of a field that another thread
\* reads.
ytRest == <<pc, interrupt, attempts, error_wait_time, last_time, conf, sinks,
            ffmpeg_stream, stdout_reader_thread, stderr_reader_thread,
            error_queue, proc, rdOut, rdErr, exitcode, spawned, nread, nlines,
            src, lastRaise, leftBy, opens, sleeps, faults, budget,
            sinkVars, gc, aws, dm, su, rm, cam>>

\* time.time() at the first call of write: the seconds since 1970, more than
\* any segment length.
YtEpoch == YtSegmentLength + 1

InitYt ==
    /\ yt \in {[YtIdle EXCEPT !.pc = "open", !.t = YtEpoch, !.faults = f] :
                 f \in 0..MaxYtFaults}
    /\ rm = ReadIdle
    /\ cam = CameraIdle
    /\ gc = GcIdle
    /\ aws = AwsIdle
    /\ dm = DaemonIdle
    /\ su = StartupIdle
    /\ budget = NoFaults
    /\ conf = [reconnect_attempts |-> 1, reconnect_base_delay |-> 1, segment_length |-> 1]
    /\ sinks = <<1>>
    /\ now = 0
    /\ InitRest

\* The background threads that have not returned and have not died of an
\* exception.
YtAlive(y) == {i \in 1..Len(y.threads) : y.threads[i].pc \notin {"done", "dead"}}

\* threading.Thread(target=...) assigned to _thread and started, lines
\* 294-295, 300-301 and 309-310.
Yt_start_thread(y, target, first) ==
    [y EXCEPT !.thread = Len(y.threads) + 1,
              !.threads = Append(@, [kind |-> target, pc |-> first])]

\* A write that delivers nothing.
Yt_send_nothing(y, frame) == y

\* self._ffmpeg_stdin.write(frame), line 305, when it does not raise.
Yt_send(y, frame) == [y EXCEPT !.delivered = Append(@, <<frame, y.stdin>>)]

\* write, lines 289-310. `broken` is whether the pipe to the uploader raises
\* ConnectionError; a pipe whose process was killed always does.
Yt_write(broken) ==
    /\ yt.pc = "open"
    /\ yt.nw < MaxFrames
    /\ broken => yt.faults > 0
    /\ LET y == [yt EXCEPT !.nw = @ + 1]
           canStart == Len(yt.threads) < MaxYtThreads
       IN  IF y.stdin = 0
           THEN IF y.thread = 0
                THEN /\ canStart
                     /\ ~broken
                     /\ yt' = Yt_start_thread([y EXCEPT !.dropped = @ + 1],
                                              "_init_stream", "create")
                ELSE /\ ~broken
                     /\ yt' = [y EXCEPT !.dropped = @ + 1]
           ELSE IF y.t - y.segment_start > YtSegmentLength
           THEN /\ canStart
                /\ ~broken
                /\ yt' = Yt_start_thread([y EXCEPT !.stdin = 0, !.dropped = @ + 1],
                                         "_swap_streams", "close")
           ELSE IF broken \/ y.procs[y.stdin] = "killed"
           THEN /\ canStart
                /\ yt' = Yt_start_thread(
                             [y EXCEPT !.stdin = 0, !.dropped = @ + 1,
                                       !.faults = IF broken THEN @ - 1 ELSE @],
                             "_fix_stream", "kill")
           ELSE yt' = Yt_send(y, y.nw)
    /\ UNCHANGED ytRest

\* Where the retry loop of a thread starts again after an exception it
\* catches (lines 158 and 173); _fix_stream catches none.
YtLoopTop(kind) ==
    CASE kind = "_init_stream" -> "create"
      [] kind = "_swap_streams" -> "close"
      [] OTHER -> "dead"

YtSetPc(y, i, p) == [y EXCEPT !.threads[i].pc = p]

\* _ffmpeg_close, lines 283-287, as _swap_streams calls it (line 175): with
\* no process (_ffmpeg is None) the call of kill raises AttributeError, which
\* the loop does not catch.
Yt_ffmpeg_close(i) ==
    /\ i \in YtAlive(yt)
    /\ yt.threads[i].pc = "close"
    /\ yt' = IF yt.ffmpeg = 0 THEN YtSetPc(yt, i, "dead")
             ELSE YtSetPc([yt EXCEPT !.procs[yt.ffmpeg] = "killed",
                                     !.stdin = 0, !.ffmpeg = 0], i, "end")
    /\ UNCHANGED ytRest

\* _end_broadcast (lines 244-261) and _create_broadcast (lines 194-242), the
\* calls to the YouTube API: each returns or raises HttpError, which the loop
\* logs and puts on the error queue before it starts again.
Yt_api_call(i, ok) ==
    /\ i \in YtAlive(yt)
    /\ yt.threads[i].pc \in {"end", "create"}
    /\ ~ok => yt.faults > 0
    /\ yt' = IF ok
             THEN YtSetPc(yt, i, IF yt.threads[i].pc = "end" THEN "create" ELSE "open")
             ELSE YtSetPc([yt EXCEPT !.faults = @ - 1, !.errors = @ + 1],
                          i, YtLoopTop(yt.threads[i].kind))
    /\ UNCHANGED ytRest

\* _fix_stream, lines 189-191: kill the process there is, if any.
Yt_fix_kill(i) ==
    /\ i \in YtAlive(yt)
    /\ yt.threads[i].pc = "kill"
    /\ yt' = IF yt.ffmpeg = 0 THEN YtSetPc(yt, i, "open")
             ELSE YtSetPc([yt EXCEPT !.procs[yt.ffmpeg] = "killed", !.ffmpeg = 0],
                          i, "open")
    /\ UNCHANGED ytRest

\* _ffmpeg_open, lines 263-280: start the uploader and take its stdin; the
\* start raises OSError when the program cannot be run, after which the loop
\* sleeps and starts again.
Yt_ffmpeg_open(i, ok) ==
    /\ i \in YtAlive(yt)
    /\ yt.threads[i].pc = "open"
    /\ ~ok => yt.faults > 0
    /\ yt' = IF ok
             THEN YtSetPc([yt EXCEPT !.procs = Append(@, "running"),
                                     !.ffmpeg = Len(yt.procs) + 1,
                                     !.stdin = Len(yt.procs) + 1], i, "stamp")
             ELSE YtSetPc([yt EXCEPT !.faults = @ - 1], i, YtLoopTop(yt.threads[i].kind))
    /\ UNCHANGED ytRest

\* _ffmpeg_open, line 281: the segment starts now. _fix_stream returns after
\* it, the other two have an assignment left.
Yt_segment_start(i) ==
    /\ i \in YtAlive(yt)
    /\ yt.threads[i].pc = "stamp"
    /\ yt' = YtSetPc([yt EXCEPT !.segment_start = yt.t], i,
                     IF yt.threads[i].kind = "_fix_stream" THEN "done" ELSE "clear")
    /\ UNCHANGED ytRest

\* self._thread = None, lines 168 and 185.
Yt_clear_thread(i) ==
    /\ i \in YtAlive(yt)
    /\ yt.threads[i].pc = "clear"
    /\ yt' = YtSetPc([yt EXCEPT !.thread = 0], i, "done")
    /\ UNCHANGED ytRest

\* A second passes.
YtTick ==
    /\ yt.pc = "open"
    /\ yt.t < YtEpoch + MaxYtTicks
    /\ yt' = [yt EXCEPT !.t = @ + 1]
    /\ UNCHANGED ytRest

YtThreadStep ==
    \E i \in 1..MaxYtThreads :
        \/ Yt_ffmpeg_close(i)
        \/ \E ok \in BOOLEAN : Yt_api_call(i, ok)
        \/ Yt_fix_kill(i)
        \/ \E ok \in BOOLEAN : Yt_ffmpeg_open(i, ok)
        \/ Yt_segment_start(i)
        \/ Yt_clear_thread(i)

NextYt ==
    \/ \E broken \in BOOLEAN : Yt_write(broken)
    \/ YtThreadStep
    \/ YtTick

SpecYt == InitYt /\ [][NextYt]_vars

\* ------------------------------------- the retry loop when every attempt fails
\* run() with any integer as reconnect_attempts (int(conf[...]), line 90,
\* takes zero and negative values), under an environment in which no attempt
\* succeeds: either no sink opens, or one does and the start of the
\* transcoder raises. The transcoder of a failed start is the subject of the
\* start-up specification; here only the error it raises is kept.
MaxTries == MaxAttempts + 1

InitRetry ==
    /\ gc = GcIdle
    /\ aws = AwsIdle
    /\ dm = DaemonIdle
    /\ su = StartupIdle
    /\ yt = YtIdle
    /\ rm = ReadIdle
    /\ cam = CameraIdle
    /\ budget = NoFaults
    /\ conf \in [reconnect_attempts : (0 - MaxBelowZero)..MaxAttempts,
                 reconnect_base_delay : 1..MaxDelay,
                 segment_length : {1}]
    /\ sinks \in {<<1>>, <<1, 2>>}
    /\ now = 0
    /\ InitRest

\* "if attempts == 0", lines 192 and 204.
Retry_give_up(n) == n = 0

\* Lines 191-199 and 203-213: count the attempt down, raise with none left,
\* otherwise sleep, double the delay and start the loop again.
Retry_backoff(err) ==
    IF Retry_give_up(attempts - 1)
    THEN /\ pc' = "failed"
         /\ exitcode' = err
         /\ attempts' = attempts - 1
         /\ UNCHANGED <<error_wait_time, now, sleeps>>
    ELSE /\ pc' = "top"
         /\ attempts' = attempts - 1
         /\ now' = now + error_wait_time
         /\ sleeps' = Append(sleeps, error_wait_time)
         /\ error_wait_time' = error_wait_time * 2
         /\ UNCHANGED exitcode

\* One pass of the loop of run(), lines 182-213, that fails: the sinks of F
\* raise in open; with no sink open the error is EIO, otherwise
\* _open_ffmpeg_stream raises err.
Retry_attempt(F, err) ==
    /\ pc = "top"
    /\ ~interrupt
    /\ faults < MaxTries
    /\ F \subseteq {s \in Range(sinks) : ~sink[s].file}
    /\ LET res(s) == FileSink_open(sink[s], disk[s], now, s \in F)
           opened == {s \in Range(sinks) : ~sink[s].file /\ s \notin F}
       IN  /\ sink' = [s \in Sinks |-> IF s \in Range(sinks) THEN res(s)[1] ELSE sink[s]]
           /\ disk' = [s \in Sinks |-> IF s \in Range(sinks) THEN res(s)[2] ELSE disk[s]]
           /\ created' = [s \in Sinks |-> IF s \in opened
                                          THEN Append(created[s], Stamp(now))
                                          ELSE created[s]]
    /\ faults' = faults + 1
    /\ IF \A s \in Range(sinks) : ~sink'[s].file
       THEN err = "EIO" /\ Retry_backoff("EIO")
       ELSE err # "EIO" /\ Retry_backoff(err)
    /\ UNCHANGED <<interrupt, last_time, static, ffmpeg_stream, stdout_reader_thread,
                   stderr_reader_thread, error_queue, proc, rdOut, rdErr,
                   spawned, nread, nlines, src, wlog, lastRaise, leftBy, opens, budget>>

RetryStep ==
    \E F \in SUBSET Sinks, err \in {"EIO", "EHOSTUNREACH", "ECONNRESET", "ECONNABORTED"} :
        Retry_attempt(F, err)

SpecRetry == InitRetry /\ [][RetryStep]_vars

\* run() is a thread of its own: it makes its next step.
SpecRetryLive == SpecRetry /\ WF_vars(RetryStep)

\* ----------------------------------------------------------------- read_msg
\* One call of read_msg (libreeye/daemon/socket_actions.py) on a stream socket
\* whose peer sends bytes and closes. A byte is 0, the delimiter, or 1, any
\* other character.
readRest == <<pc, interrupt, attempts, error_wait_time, last_time, conf, sinks,
              ffmpeg_stream, stdout_reader_thread, stderr_reader_thread,
              error_queue, proc, rdOut, rdErr, exitcode, spawned, nread, nlines,
              src, lastRaise, leftBy, opens, sleeps, faults, budget,
              sinkVars, gc, aws, dm, su, yt, cam>>

InitRead ==
    /\ rm = [ReadIdle EXCEPT !.pc = "test", !.peer = "open"]
    /\ cam = CameraIdle
    /\ gc = GcIdle
    /\ aws = AwsIdle
    /\ dm = DaemonIdle
    /\ su = StartupIdle
    /\ yt = YtIdle
    /\ budget = NoFaults
    /\ conf = [reconnect_attempts |-> 1, reconnect_base_delay |-> 1, segment_length |-> 1]
    /\ sinks = <<1>>
    /\ now = 0
    /\ InitRest

\* The peer sends a byte: write_msg, or a peer that sends anything else.
Peer_send(b) ==
    /\ rm.peer = "open"
    /\ rm.sent < MaxMsgBytes
    /\ rm' = [rm EXCEPT !.wire = Append(@, b), !.sent = @ + 1]
    /\ UNCHANGED readRest

\* The peer closes the socket: sock.close() in the client (main.py 54), the
\* end of the request in the server, or the end of the peer's process.
Peer_close ==
    /\ rm.peer = "open"
    /\ rm' = [rm EXCEPT !.peer = "closed"]
    /\ UNCHANGED readRest

\* Line 9: the test of the loop; line 11: the value returned, the bytes
\* without the last.
read_msg_test ==
    /\ rm.pc = "test"
    /\ rm' = IF Len(rm.answer) = 0 \/ rm.answer[Len(rm.answer)] # 0
             THEN [rm EXCEPT !.pc = "recv"]
             ELSE [rm EXCEPT !.pc = "returned",
                             !.result = SubSeq(rm.answer, 1, Len(rm.answer) - 1)]
    /\ UNCHANGED readRest

\* Line 10: answer += socket.recv(1024). recv waits while the peer is
\* connected and has sent nothing, returns some of the bytes in flight, at
\* least one, when there are any, and returns b'' once the peer has closed
\* and every byte has been read.
read_msg_recv(n) ==
    /\ rm.pc = "recv"
    /\ IF rm.wire # <<>>
       THEN /\ n \in 1..Len(rm.wire)
            /\ rm' = [rm EXCEPT !.pc = "test",
                                !.answer = @ \o SubSeq(rm.wire, 1, n),
                                !.wire = SubSeq(@, n + 1, Len(@))]
       ELSE /\ n = 0
            /\ rm.peer = "closed"
            /\ rm' = [rm EXCEPT !.pc = "test", !.eofs = 1]
    /\ UNCHANGED readRest

ReadStep ==
    \/ read_msg_test
    \/ \E n \in 0..MaxMsgBytes : read_msg_recv(n)

NextRead ==
    \/ \E b \in {0, 1} : Peer_send(b)
    \/ Peer_close
    \/ ReadStep

SpecRead == InitRead /\ [][NextRead]_vars

\* The thread that called read_msg keeps running.
SpecReadLive == SpecRead /\ WF_vars(ReadStep)

\* -------------------------------------------------------- the queue-based Camera
\* A started Camera (surveillance/camera.py): the transcoder writes blocks to
\* its stdout, the stdout handler thread moves them to the video queue, and
\* the owner of the camera calls read and then stop or reset. Of a reset only
\* the teardown of the old transcoder is followed.
camRest == <<pc, interrupt, attempts, error_wait_time, last_time, conf, sinks,
             ffmpeg_stream, stdout_reader_thread, stderr_reader_thread,
             error_queue, proc, rdOut, rdErr, exitcode, spawned, nread, nlines,
             src, lastRaise, leftBy, opens, sleeps, faults, budget,
             sinkVars, gc, aws, dm, su, yt, rm>>

InitCam ==
    /\ cam = [CameraIdle EXCEPT !.pc = "started", !.started = TRUE,
                                !.ffmpeg = "running", !.h = "read"]
    /\ gc = GcIdle
    /\ aws = AwsIdle
    /\ dm = DaemonIdle
    /\ su = StartupIdle
    /\ yt = YtIdle
    /\ rm = ReadIdle
    /\ budget = NoFaults
    /\ conf = [reconnect_attempts |-> 1, reconnect_base_delay |-> 1, segment_length |-> 1]
    /\ sinks = <<1>>
    /\ now = 0
    /\ InitRest

\* The transcoder writes a block to its stdout.
Cam_ffmpeg_write ==
    /\ cam.ffmpeg = "running"
    /\ cam.produced < MaxCamBlocks
    /\ cam' = [cam EXCEPT !.pipe = Append(@, cam.produced + 1), !.produced = @ + 1]
    /\ UNCHANGED camRest

\* _stdout_handler, lines 37-39: stream.read returns a block, or nothing at
\* the end of the stream, which ends the thread.
Cam_stdout_read ==
    /\ cam.h = "read"
    /\ IF cam.pipe # <<>>
       THEN cam' = [cam EXCEPT !.h = "put", !.blk = Head(cam.pipe), !.pipe = Tail(@)]
       ELSE /\ cam.ffmpeg = "ended"
            /\ cam' = [cam EXCEPT !.h = "ended"]
    /\ UNCHANGED camRest

\* _stdout_handler, line 40: q.put(block), on the queue the thread was given.
Cam_stdout_put ==
    /\ cam.h = "put"
    /\ cam' = [cam EXCEPT !.h = "read",
                          !.video_queue = Append(@, cam.blk),
                          !.put = Append(@, cam.blk)]
    /\ UNCHANGED camRest

\* read, lines 236-242, when the queue holds a block.
Camera_read ==
    /\ cam.pc = "started"
    /\ cam.started
    /\ cam.video_queue # <<>>
    /\ cam' = [cam EXCEPT !.video_queue = Tail(@),
                          !.got = Append(@, Head(cam.video_queue))]
    /\ UNCHANGED camRest

\* stop, lines 156-164, and reset, lines 184-197: the transcoder is told to
\* quit and has ended, or is killed, when _stop_ffmpeg_subproc returns; stop
\* clears _started first.
Camera_stop_ffmpeg(op) ==
    /\ cam.pc = "started"
    /\ cam.started
    /\ cam' = [cam EXCEPT !.pc = "join", !.op = op, !.ffmpeg = "ended",
                          !.started = (op = "reset")]
    /\ UNCHANGED camRest

\* self._stdout_handler_t.join(timeout=1), lines 166-170 and 202-207: the
\* call returns when the thread has ended, or after a second (`timeout`)
\* while the thread is still running; the reference is dropped either way.
Camera_join(timeout) ==
    /\ cam.pc = "join"
    /\ timeout <=> cam.h # "ended"
    /\ cam' = [cam EXCEPT !.pc = "drain", !.timeouts = IF timeout THEN 1 ELSE @]
    /\ UNCHANGED camRest

\* Lines 176-181 and 213-218: the blocks left in the queue are taken and
\* returned as one; the thread that has not ended keeps its reference to the
\* queue and goes on putting blocks on it.
Camera_drain ==
    /\ cam.pc = "drain"
    /\ cam' = [cam EXCEPT !.pc = "returned",
                          !.got = @ \o cam.video_queue,
                          !.video_queue = <<>>]
    /\ UNCHANGED camRest

NextCam ==
    \/ Cam_ffmpeg_write
    \/ Cam_stdout_read
    \/ Cam_stdout_put
    \/ Camera_read
    \/ \E op \in {"stop", "reset"} : Camera_stop_ffmpeg(op)
    \/ \E timeout \in BOOLEAN : Camera_join(timeout)
    \/ Camera_drain

SpecCam == InitCam /\ [][NextCam]_vars

\* ------------------------------------------------------------- properties
Alive == {p \in Pids : proc[p] \in {"starting", "running", "quitting"}}

Ceil(a, b) == (a + b - 1) \div b

C3_SleepsEveryAttempt ==
    exitcode = "EIO" =>
        /\ Len(sleeps) = conf.reconnect_attempts
        /\ \A i \in 1..Len(sleeps) : sleeps[i] = conf.reconnect_base_delay * 2 ^ (i - 1)

\* C3, amended: run fails with EIO after max_attempts failed attempts and
\* max_attempts - 1 sleeps d, 2d, ..., the last failed attempt raising without
\* a sleep; EIO is the exit code.
C3_SleepsBetweenAttempts ==
    exitcode = "EIO" =>
        /\ pc = "failed"
        /\ attempts = 0
        /\ Len(sleeps) = conf.reconnect_attempts - 1
        /\ \A i \in 1..Len(sleeps) : sleeps[i] = conf.reconnect_base_delay * 2 ^ (i - 1)

\* C3, the case: three failed attempts, two sleeps, EIO.
C3_Witness ==
    /\ exitcode = "EIO"
    /\ conf.reconnect_attempts = 3
    /\ Len(sleeps) = 2
    /\ \A s \in Range(sinks) : Len(opens[s]) = 3

\* C4: at every instant at most one transcoder spawned by the pipeline is alive.
C4_AtMostOneTranscoder == Cardinality(Alive) <= 1

\* C5: in a run without failure, every window [a, a + T) that starts on a
\* multiple of the segment length, not before the first open, and has elapsed
\* holds exactly ceil(T / L) calls of open on each configured sink.
C5_OpensPerWindow ==
    faults = 0 =>
        \A s \in Range(sinks) : \A a \in 0..MaxTime, T \in 1..MaxTime :
            (/\ opens[s] # <<>>
             /\ a % length = 0
             /\ a >= opens[s][1]
             /\ a + T <= now)
            => Cardinality({i \in 1..Len(opens[s]) :
                                a <= opens[s][i] /\ opens[s][i] < a + T})
               = Ceil(T, length)

AtOrBeforeThreshold == {i \in GcItems : gc.mtime[i] <= gc.today - gc.days * TicksPerDay}

\* C7: LocalStorage.list_expired yields, and the sweep of the collector removes,
\* only items at or before today - retention_days, and when they are through
\* exactly those: every other item remains.
C7_SelectsAtOrBeforeThreshold ==
    /\ gc.backend = "local" =>
           /\ gc.expired \subseteq AtOrBeforeThreshold
           /\ gc.pc = "done" => gc.expired = AtOrBeforeThreshold
    /\ gc.backend = "sweep" =>
           /\ gc.removed \subseteq AtOrBeforeThreshold
           /\ gc.pc = "done" => GcItems \ gc.removed = GcItems \ AtOrBeforeThreshold

\* C7, the case: a sweep over three files has ended, having removed one file
\* older than the threshold and kept one younger.
C7_Witness ==
    /\ gc.backend = "sweep"
    /\ gc.pc = "done"
    /\ Len(gc.mtime) = 3
    /\ \E i, j \in GcItems : /\ i \in gc.removed
                             /\ j \notin gc.removed
                             /\ gc.mtime[i] < gc.mtime[j]

\* C8, as stated: an item is removed only if its time stamp is strictly less
\* than today - retention_days.
C8_RemovedOnlyIfStrictlyOlder ==
    \A i \in gc.removed \cup gc.expired :
        gc.mtime[i] < gc.today - gc.days * TicksPerDay

\* C8, amended: an item is removed (yielded) only if its time stamp is less
\* than or equal to today - retention_days, and an item whose time stamp equals
\* the threshold is removed by the sweep and yielded by LocalStorage.list_expired.
C8_RemovedIfEqual ==
    /\ \A i \in gc.removed \cup gc.expired :
           gc.mtime[i] <= gc.today - gc.days * TicksPerDay
    /\ (gc.pc = "done" /\ gc.backend \in {"sweep", "local"}) =>
           \A i \in GcItems :
               gc.mtime[i] = gc.today - gc.days * TicksPerDay =>
                   i \in gc.removed \cup gc.expired

\* C8, the case: the sweep has removed an item whose time stamp is the threshold.
C8_Witness ==
    /\ gc.backend = "sweep"
    /\ gc.pc = "done"
    /\ gc.days = 1
    /\ \E i \in gc.removed : gc.mtime[i] = gc.today - gc.days * TicksPerDay

\* C9: with retention_days <= 0 no backend yields or removes an item.
C9_NothingWhenNoRetention ==
    gc.days <= 0 => gc.removed = {} /\ gc.expired = {}

\* The calls of kind op made to S3 for upload k, in the order they were made.
RECURSIVE CallsOf(_, _, _)
CallsOf(log, op, k) ==
    IF log = <<>> THEN <<>>
    ELSE IF Head(log).op = op /\ Head(log).id = k
         THEN <<Head(log)>> \o CallsOf(Tail(log), op, k)
         ELSE CallsOf(Tail(log), op, k)

\* The uploads of the open -> write* -> close sequence in progress or last ended.
OfSequence == {k \in Uploads : k >= aws.first}

Completes == {i \in 1..Len(aws.s3) : aws.s3[i].op = "complete"}

RECURSIVE SumSeq(_)
SumSeq(s) == IF s = <<>> THEN 0 ELSE Head(s) + SumSeq(Tail(s))

PartSizes(k) == [j \in 1..Len(CallsOf(aws.s3, "part", k)) |->
                    CallsOf(aws.s3, "part", k)[j].size]

C12_WriteRaisesRecordedError ==
    [][(/\ aws.thread_exception # "none"
        /\ aws.pc = "open"
        /\ \E out \in 1..BlockUnits : AWS_write(out))
       => (/\ aws'.pc = "failed"
           /\ aws'.raised = [by |-> "write", err |-> aws.thread_exception]
           /\ aws'.ffmpeg_subprocess = NoProc
           /\ aws'.nwrites = aws.nwrites
           /\ aws'.out = aws.out)]_vars

\* C12, the case: after writes were accepted, a write has raised the time-out
\* the thread had recorded, while the sink was open and idle.
C12_Witness ==
    /\ aws.raised = [by |-> "write", err |-> "ETIMEDOUT"]
    /\ aws.pc = "failed"
    /\ aws.nwrites >= 3
    /\ Len(aws.thr) = 1

\* C13: close never waits for longer than the configured time-out for an
\* uploader thread that has neither finished nor recorded an error.
C13_CloseWaitsAtMostTimeout ==
    (/\ aws.pc = "close_wait"
     /\ aws.thread_exception = "none"
     /\ aws.thr[aws.thread].pc \notin {"done", "dead"})
    => now - aws.wait_since <= TimeoutTicks

\* C14: the byte reader is about to call write on a sink (it has passed the
\* is_opened test) only while that sink is open.
C14_WriteOnlyOnOpenSink ==
    \A p \in Pids :
        rdOut[p].pc = "write" => FileSink_is_opened(sink[sinks[rdOut[p].i]])

\* C15: open on a sink that is open changes nothing: a FileSink keeps its file,
\* its name and its byte counter and no file is created or truncated; an
\* AWSBucketSink keeps its transcoder, its thread, its uploads and the data
\* in its pipe.
C15_OpenWhenOpenedNoEffect ==
    [][/\ (FileSink_is_opened(sink[1]) /\ FsOpen)
            => (sink' = sink /\ disk' = disk /\ created' = created)
       /\ (aws.pc = "open" /\ \E ok \in BOOLEAN : AWS_open(ok))
            => aws' = [aws EXCEPT !.reopens = @ + 1]]_vars

\* C15, the case: open was called on an AWSBucketSink that was open with data
\* in its pipe and its thread waiting for more.
C15_Witness ==
    /\ aws.reopens = 1
    /\ aws.pc = "open"
    /\ aws.nwrites = 2
    /\ aws.pipe[aws.ffmpeg_subprocess] > 0
    /\ aws.thr[aws.thread].pc = "read"

\* C16: close on a sink that is not open raises nothing: no close of an
\* AWSBucketSink has failed for want of a stream to close.
C16_CloseWhenClosedRaisesNothing ==
    aws.ffmpeg_subprocess = NoProc =>
        aws.raised # [by |-> "close", err |-> "AttributeError"]

\* C17: with the watchdog on, an active camera whose container ended by itself
\* and that was not stopped since has a container running again no later than
\* two watchdog delays after the end.
C17_RestartedWithinTwoDelays ==
    \A c \in Cameras :
        (dm.watchdog /\ dm.active[c] /\ ~dm.running[c] /\ dm.died[c] # Never)
        => now - dm.died[c] <= 2 * WatchdogDelay

\* C18: a camera's active flag is set exactly when the last of start_camera
\* and stop_camera called on it is start_camera, whatever its container does,
\* and list_cameras reports the camera active exactly then.
C18_ListReportsLastCall ==
    [][/\ \A c \in Cameras : dm'.active[c] = (dm'.last[c] = "start")
       /\ Handler_list_cameras
            => (dm'.h.reply[dm.h.id] # "inactive") = (dm.last[dm.h.id] = "start")]_vars

\* C18, the case: a listing made while the watchdog restarts camera 0, whose
\* container has ended, reports it active, and camera 1, stopped, inactive.
C18_Witness ==
    /\ dm.h.op = "ls"
    /\ dm.h.step = "done"
    /\ dm.h.reply[0] = "active exited"
    /\ dm.h.reply[1] = "inactive"
    /\ dm.last[1] = "stop"
    /\ dm.main.pc = "watchdog"
    /\ dm.main.i = 0
    /\ dm.main.step = "run"

\* C19: when the watchdog calls start_camera on a camera, the camera is marked
\* active, its container is not running, and it has not been stopped since it
\* was last started by a request or by run().
C19_WatchdogStartsOnlyActiveDead ==
    (dm.main.pc = "watchdog" /\ dm.main.step = "flag")
    => (/\ dm.active[dm.main.i]
        /\ ~dm.running[dm.main.i]
        /\ ~dm.stopped[dm.main.i])

C21_StopWhenNotRunningReplies ==
    [][(/\ dm.h.op = "stop"
        /\ dm.h.step = "list"
        /\ ~is_container_running(dm, dm.h.id)
        /\ Handler_stop_camera)
       => (dm'.h.err = "none" /\ dm'.h.step = "done" /\ dm'.h.frames = 1)]_vars

\* C22: for every request the handler writes at most one reply frame, exactly
\* one for camera ls, camera stop and gc run and none for camera start: a
\* request that is done has one frame if it is ls, stop or gc and none if it
\* is start.
C22_OneReplyPerRequest ==
    /\ dm.h.frames <= 1
    /\ dm.h.step = "done" =>
         dm.h.frames = IF dm.h.op \in {"ls", "stop", "gc"} THEN 1 ELSE 0

\* C23: after SIGTERM, run() leaves the scheduler loop, shuts the server down,
\* stops the pipeline of every camera, running or not, and returns: once the
\* loop is left, run() eventually has returned and no container runs.
C23_RunReturnsAfterSigterm ==
    (dm.main.pc = "stopall") ~>
        (dm.main.pc = "returned" /\ \A c \in Cameras : ~dm.running[c])

\* C24: after stop is requested at any point of run(), the current iteration
\* finishes and run() eventually returns.
C24_RunReturnsAfterStop ==
    interrupt ~> (pc = "done")

\* C25: Daemon() returns the same object on every call and the body of
\* __init__ runs at most once per process, handler threads included: one
\* object is made, it is initialised once, and the object a handler got from
\* Daemon() is the one main() got.
C25_OneDaemonInitialisedOnce ==
    /\ dm.created <= 1
    /\ dm.inits <= 1
    /\ dm.main.pc # "main" => dm.instance = 1 /\ dm.initialized
    /\ dm.h.op # "none" => dm.h.obj = 1

C25_Witness ==
    /\ dm.h.op = "start"
    /\ dm.h.step = "check"
    /\ dm.h.obj = 1
    /\ dm.main.pc = "watchdog"
    /\ dm.inits = 1

\* C26: start_camera, stop_camera and the watchdog's check-then-start for the
\* same camera execute mutually exclusively: the main thread is not between
\* its first and its last access to a camera's state in a watchdog run while
\* the handler thread is between the first and the last access of a
\* start_camera or stop_camera on that camera.
C26_CameraOperationsExclusive ==
    \A c \in Cameras :
        ~(/\ dm.main.pc = "watchdog"
          /\ dm.main.i = c
          /\ dm.main.step \in {"running", "flag", "check", "run"}
          /\ dm.h.op \in {"start", "stop"}
          /\ dm.h.id = c
          /\ dm.h.step \in {"check", "run", "list", "kill"})

\* C27: an error raised out of the main loop unwinds to the backoff step: when
\* run() is back at the top of its loop after such an error, with no stop
\* requested, the failure has been counted against max_attempts and a backoff
\* sleep has been made before the next attempt.
C27_MainLoopErrorBacksOff ==
    (/\ pc = "top"
     /\ ~interrupt
     /\ leftBy.why \notin {"none", "interrupt", "rollover"})
    => (attempts < conf.reconnect_attempts /\ sleeps # <<>>)

\* C28: if the transcoder fails before emitting any output byte,
\* _open_ffmpeg_stream raises the classified error and kills the subprocess,
\* whatever the interleaving with the stderr reader: a call that has ended for
\* a transcoder that wrote an error line and exited without a byte has ended
\* by raising, the subprocess terminated, and not by a successful start.
C28_FailedStartRaises ==
    (/\ su.pc \in {"started", "raised"}
     /\ su.fatal
     /\ ~su.byte
     /\ su.proc = "exited")
    => (su.pc = "raised" /\ su.killed)

\* C29: the start-up wait ends as soon as a first byte is available or a
\* non-warning error is queued: a call that waits with such an error on the
\* queue eventually ends by raising it, even if the transcoder stays alive
\* without output.
C29_StartupWaitEndsOnError ==
    (/\ su.pc = "peek"
     /\ \E i \in 1..Len(su.queue) : ~IsWarning(su.queue[i]))
    ~> (su.pc = "raised")

\* C30: when joining the reader threads times out after the transcoder was
\* asked to quit, the error is logged and not propagated, and the transcoder
\* is killed before the next cycle starts: no transcoder that was asked to
\* quit is still alive when run() starts the next one.
C30_KilledAfterJoinTimeout ==
    pc = "spawn" => \A p \in Pids : proc[p] # "quitting"

\* C31: whenever run() terminates, by returning after stop() or by raising
\* after the retries are exhausted, no sink is left open and no transcoder
\* started by it is left running.
C31_NothingLeftAtTermination ==
    (pc = "done" \/ (pc = "failed" /\ attempts = 0))
    => (OpenSet = {} /\ Alive = {})

\* C32: a warning-class item taken from the error queue is only logged: a
\* step of run() that empties a queue holding nothing but warnings does not
\* end the main loop by an error, does not fail the start-up and does not
\* consume a retry attempt.
C32_WarningsOnlyLogged ==
    [][(/\ pc \in {"peek", "main_loop"}
        /\ error_queue # <<>>
        /\ \A i \in 1..Len(error_queue) : error_queue[i] = "RuntimeWarning"
        /\ error_queue' = <<>>)
       => (/\ attempts' >= attempts
           /\ pc' # "failed"
           /\ pc = "peek" => pc' = "main_loop"
           /\ pc' = "close_ffmpeg" => leftBy'.why \in {"interrupt", "rollover"})]_vars

C32_Witness ==
    /\ pc = "main_loop"
    /\ nlines = 1
    /\ budget = Budget([stderr |-> 1])
    /\ error_queue = <<>>
    /\ last_time > 0
    /\ attempts = conf.reconnect_attempts

\* C33: FileSink.open opens the segment file for appending: the bytes a file
\* holds from an earlier open/close cycle are preserved and later writes
\* follow them, so every block written through the sink stays in a file, and
\* each file holds its blocks in the order they were written.
C33_OpenPreservesEarlierBytes ==
    /\ \A i \in 1..Len(wlog) :
          wlog[i][1] = 1 =>
              \E n \in DOMAIN disk[1] : wlog[i][2] \in Range(disk[1][n])
    /\ \A n \in DOMAIN disk[1] :
          \A j, k \in 1..Len(disk[1][n]) : j < k => disk[1][n][j] < disk[1][n][k]

\* C34: YoutubeWriter.write never waits for the set-up of a stream: a call
\* can always be made, whatever the background threads are doing; a call made
\* while the stdin handle is null writes no byte; and a call made while the
\* handle is set, the segment has not ended and the pipe takes the frame
\* delivers the frame to the stream opened last.
C34_WriteNeverWaitsForSetUp ==
    /\ []((yt.pc = "open" /\ yt.nw < MaxFrames /\ Len(yt.threads) < MaxYtThreads)
          => ENABLED (\E broken \in BOOLEAN : Yt_write(broken)))
    /\ [][(yt'.nw = yt.nw + 1)
          => /\ yt.stdin = 0 => yt'.delivered = yt.delivered
             /\ (/\ yt.stdin # 0
                 /\ yt.t - yt.segment_start <= YtSegmentLength
                 /\ yt'.stdin # 0)
                => /\ yt.stdin = Len(yt.procs)
                   /\ yt'.delivered = Append(yt.delivered, <<yt.nw + 1, yt.stdin>>)]_vars

\* C34, the case: a call of write returned without writing while the stream
\* was set up, the segment was swapped, and the last frame went to the second
\* stream.
C34_Witness ==
    /\ yt.dropped > 0
    /\ yt.delivered # <<>>
    /\ yt.delivered[Len(yt.delivered)][2] = 2
    /\ yt.delivered[1][2] = 1

\* C35: per YoutubeWriter at most one background thread is alive, the _thread
\* reference is non-null exactly while one is running, and once write has
\* been called a null stdin handle comes with a thread that will restore it.
C35_OneThreadRestoresStdin ==
    /\ Cardinality(YtAlive(yt)) <= 1
    /\ (yt.thread # 0) <=> (YtAlive(yt) # {})
    /\ (yt.nw > 0 /\ yt.stdin = 0) => YtAlive(yt) # {}

C37_ScheduledFailureKeepsLoop ==
    [][dm.main.pc \in {"watchdog", "gc"}
       => dm'.main.pc \in {"watchdog", "gc", "loop"}]_vars

\* C38: once the daemon is constructed the scheduler queue holds exactly one
\* pending event of the retention sweep and, with the watchdog enabled,
\* exactly one of the watchdog (none with it disabled); a firing re-enters
\* the task one period after the time of the firing, and no step other than a
\* firing changes the time an event is due.
C38_OneEventPerTask ==
    /\ [](dm.initialized
          => /\ dm.queue["gc"] = 1
             /\ dm.queue["watchdog"] = IF dm.watchdog THEN 1 ELSE 0)
    /\ [][dm.initialized
          => /\ dm'.gc_next # dm.gc_next
                => (dm.main.pc = "loop" /\ dm'.main.pc = "gc"
                    /\ dm'.gc_next = now + GcFrequency)
             /\ dm'.wd_next # dm.wd_next
                => (dm.main.pc = "loop" /\ dm'.main.pc = "watchdog"
                    /\ dm'.wd_next = now + WatchdogDelay)]_vars

\* C38, the case: the watchdog and the sweep have both fired and a gc run
\* requested over the socket has been served.
C38_Witness ==
    /\ dm.watchdog
    /\ dm.wd_next > WatchdogDelay
    /\ dm.gc_next > GcFrequency
    /\ dm.h.op = "gc"
    /\ dm.h.step = "done"

\* C39: read_msg terminates on every connection: once the peer has closed
\* the socket, the call returns or raises.
C39_ReadMsgEndsAfterClose ==
    (rm.peer = "closed") ~> (rm.pc \in {"returned", "raised"})

\* C40: no block read from the transcoder is lost on teardown: once stop()
\* or reset() has returned, the blocks returned by read() followed by the
\* bytes the teardown returned are, in order, every block the stdout handler
\* thread has put on the queue, also after a join that timed out.
C40_NoBlockLostOnTeardown ==
    cam.pc = "returned" => cam.got = cam.put
====
